---- MODULE Spec2Model ----
(***************************************************************************)
(* Model of voice-agent-tester: the event broker of VoiceAgentTester       *)
(* (waitForAudioEvent / __publishEvent / clearAudioEventQueue / close),    *)
(* the run controller (runScenario), the benchmark scheduler               *)
(* (runBenchmark) and the provider import workflow (provider-import.js).   *)
(***************************************************************************)
EXTENDS Integers, Sequences, FiniteSets, TLC

\* ------------------------------------------------------------------------
\* Program constants
\* ------------------------------------------------------------------------
DefaultTimeoutMs == 30000
DiagnosticIntervalMs == 10000
\* configureImportedAssistant
MAX_RETRIES == 5
INITIAL_DELAY_MS == 500
\* an imported assistant older than this is re-used, not configured
ReuseThresholdMs == 60000

\* ------------------------------------------------------------------------
\* Bounds of the model
\* ------------------------------------------------------------------------
\* number of waitForAudioEvent calls explored on a free-standing broker
MaxWaiters == 2
\* on the free-standing broker no deadline lies beyond MaxTicks clock ticks
MaxTicks == 3
\* inputs of runBenchmark
MaxApps == 2
MaxScenarios == 2
MaxRepeat == 2
MaxConcurrency == 3
\* runBenchmark is explored on queues of at most MaxRuns runs
MaxRuns == 4
\* testers alive at the same time, one per concurrent run
MaxTesters == 2

TickMs == DiagnosticIntervalMs
MaxClock == MaxTicks * TickMs

\* Event vocabulary published by the instrumented page
EventTypes == {"audiostart", "audiostop", "speechend", "recordingstart", "recordingcomplete"}
\* Event types exercised on the free-standing broker
BrokerTypes == {"audiostart", "speechend"}
\* Timeouts passed to waitForAudioEvent on the free-standing broker
Timeouts == {DiagnosticIntervalMs, DefaultTimeoutMs}
\* Testers (one VoiceAgentTester instance each)
TesterIds == {1}

VARIABLES
  clock,            \* Date.now(), in ms since the start
  debug,            \* debug[t]: options.debug of tester t
  waiters,          \* sequence of every promise created by waitForAudioEvent
  pendingPromises,  \* pendingPromises[t][eventType]: array of {resolve, reject, timeoutId}
  \* --- runBenchmark ---
  config,           \* applications, scenarios, repeat and concurrency handed to runBenchmark
  allRuns,          \* the run queue built up front
  nextRunIndex,     \* the shared queue cursor
  spawned,          \* loop counter of the worker-spawning loop
  workers,          \* workers[k]: the runWorker(k) promise and its workerResults
  runState,         \* runState[r]: where the executeRun call of run r stands
  execCount,        \* execCount[r]: how many times executeRun was called for run r
  bench,            \* where runBenchmark stands
  aggregate,        \* the value runBenchmark returns
  prov,             \* the importAssistantsFromProvider call made before the benchmark
  main,             \* where main() stands: mode, phase, exit code
  \* --- runScenario ---
  opts,             \* opts[t]: constructor options and step lists of tester t
  tester,           \* tester[t]: the fields browser, page, recordingStream of tester t
  run,              \* run[t]: where the runScenario call on tester t stands
  browserEnv,       \* browserEnv[t]: the browser process and page driven by tester t
  sinkLog           \* sinkLog[t]: calls made to the report generator for the run of t

brokerVars == <<clock, debug, waiters, pendingPromises>>
schedVars == <<config, allRuns, nextRunIndex, spawned, workers, runState, execCount, bench,
               aggregate, prov, main>>
runVars == <<opts, tester, run, browserEnv, sinkLog>>
vars == <<brokerVars, schedVars, runVars>>

WaiterIds == 1..Len(waiters)

\* The two function objects of one waitForAudioEvent call: the executor's
\* resolve and the wrappedResolve closure built around it.
OriginalResolve(w) == [fn |-> "resolve", of |-> w]
WrappedResolve(w) == [fn |-> "wrappedResolve", of |-> w]

\* The record pushed on the pending list
PendingEntry(w) == [resolve |-> WrappedResolve(w), reject |-> w, timeoutId |-> w]

\* Array.prototype.findIndex(p => p.resolve === target); 0 stands for -1
FindIndex(q, target) ==
  IF \E i \in 1..Len(q) : q[i].resolve = target
  THEN CHOOSE i \in 1..Len(q) :
         /\ q[i].resolve = target
         /\ \A j \in 1..(i - 1) : q[j].resolve # target
  ELSE 0

\* Array.prototype.splice(index, 1)
Splice(q, index) == SubSeq(q, 1, index - 1) \o SubSeq(q, index + 1, Len(q))

\* Array.prototype.shift(): the removed element and what is left
ShiftLast(q) == [entry |-> q[Len(q)], rest |-> SubSeq(q, 1, Len(q) - 1)]
Shift(q) == [entry |-> Head(q), rest |-> Tail(q)]

\* Settling a promise: only a pending promise changes state
Settle(ws, w, outcome) ==
  IF ws[w].promise = "pending" THEN [ws EXCEPT ![w].promise = outcome] ELSE ws

\* clearTimeout(timeoutId): no effect on a timer that already fired
ClearTimeout(ws, w) ==
  IF ws[w].timer = "armed" THEN [ws EXCEPT ![w].timer = "cleared"] ELSE ws

\* clearInterval(diagnosticIntervalId)
ClearInterval(ws, w) == [ws EXCEPT ![w].interval = FALSE]

\* setTimeout fires its handler no earlier than the deadline
TimerDueAlways(w) == TRUE
TimerDue(w) == clock >= waiters[w].deadline

\* waitForAudioEvent(eventType, timeout): the promise executor
NewWaiter(t, eventType, timeout) ==
  [tester |-> t, eventType |-> eventType, deadline |-> clock + timeout,
   promise |-> "pending", timer |-> "armed", interval |-> debug[t]]

WaitForAudioEvent(t, eventType, timeout) ==
  /\ waiters' = Append(waiters, NewWaiter(t, eventType, timeout))
  /\ pendingPromises' = [pendingPromises EXCEPT
        ![t][eventType] = Append(@, PendingEntry(Len(waiters) + 1))]
  /\ UNCHANGED <<clock, debug>>

\* The setTimeout handler of waitForAudioEvent, up to its first await
TimeoutHandlerUnguardedSplice(w) ==
  LET t == waiters[w].tester
      eventType == waiters[w].eventType
      promises == pendingPromises[t][eventType]
      index == FindIndex(promises, OriginalResolve(w))
      fired == [ClearInterval(waiters, w) EXCEPT ![w].timer = "fired"]
  IN /\ waiters[w].timer = "armed"
     /\ TimerDue(w)
     /\ pendingPromises' =
          IF index # 0
          THEN [pendingPromises EXCEPT ![t][eventType] = Splice(promises, index)]
          ELSE [pendingPromises EXCEPT ![t][eventType] = Splice(promises, Len(promises))]
     /\ waiters' =
          IF debug[t]
          THEN [fired EXCEPT ![w].timer = "collecting"]
          ELSE Settle(fired, w, "timeout")
     /\ UNCHANGED <<clock, debug>>
TimeoutHandler(w) ==
  LET t == waiters[w].tester
      eventType == waiters[w].eventType
      promises == pendingPromises[t][eventType]
      index == FindIndex(promises, OriginalResolve(w))
      fired == [ClearInterval(waiters, w) EXCEPT ![w].timer = "fired"]
  IN /\ waiters[w].timer = "armed"
     /\ TimerDue(w)
     /\ pendingPromises' =
          IF index # 0
          THEN [pendingPromises EXCEPT ![t][eventType] = Splice(promises, index)]
          ELSE pendingPromises
     /\ waiters' =
          IF debug[t]
          THEN [fired EXCEPT ![w].timer = "collecting"]
          ELSE Settle(fired, w, "timeout")
     /\ UNCHANGED <<clock, debug>>

\* The setTimeout handler after `await collectDiagnostics()` (debug only)
TimeoutReject(w) ==
  /\ waiters[w].timer = "collecting"
  /\ waiters' = Settle([waiters EXCEPT ![w].timer = "fired"], w, "timeout")
  /\ UNCHANGED <<clock, debug, pendingPromises>>

\* The __publishEvent callback registered by launch()
PublishEventOneMap(t, eventType) ==
  LET promises == pendingPromises[1][eventType]
      shifted == Shift(promises)
      w == shifted.entry.timeoutId
      target == shifted.entry.resolve.of
  IN /\ IF Len(promises) > 0
        THEN /\ pendingPromises' = [pendingPromises EXCEPT ![1][eventType] = shifted.rest]
             /\ waiters' = Settle(ClearInterval(ClearTimeout(waiters, w), target), target, "resolved")
        ELSE UNCHANGED <<waiters, pendingPromises>>
     /\ UNCHANGED <<clock, debug>>
PublishEvent(t, eventType) ==
  LET promises == pendingPromises[t][eventType]
      shifted == Shift(promises)
      w == shifted.entry.timeoutId
      target == shifted.entry.resolve.of
  IN /\ IF Len(promises) > 0
        THEN /\ pendingPromises' = [pendingPromises EXCEPT ![t][eventType] = shifted.rest]
             /\ waiters' = Settle(ClearInterval(ClearTimeout(waiters, w), target), target, "resolved")
        ELSE UNCHANGED <<waiters, pendingPromises>>
     /\ UNCHANGED <<clock, debug>>

\* Rejecting every entry of every pending list (clearAudioEventQueue, close)
RejectAll(ws, t, outcome) ==
  [i \in DOMAIN ws |->
     IF \E eventType \in EventTypes :
          \E k \in 1..Len(pendingPromises[t][eventType]) :
            pendingPromises[t][eventType][k].reject = i
     THEN Settle(ClearTimeout(ws, i), i, outcome)[i]
     ELSE ws[i]]

ClearAudioEventQueueKeepsMap(t) ==
  /\ waiters' = RejectAll(waiters, t, "cleared")
  /\ UNCHANGED <<clock, debug, pendingPromises>>
ClearAudioEventQueue(t) ==
  /\ waiters' = RejectAll(waiters, t, "cleared")
  /\ pendingPromises' = [pendingPromises EXCEPT ![t] = [e \in EventTypes |-> <<>>]]
  /\ UNCHANGED <<clock, debug>>

\* Passage of time, observed through the armed timers
Tick(ms) ==
  /\ \E w \in WaiterIds : waiters[w].timer = "armed" /\ clock < waiters[w].deadline
  /\ clock' = clock + ms
  /\ UNCHANGED <<debug, waiters, pendingPromises>>

\* ------------------------------------------------------------------------
\* The free-standing broker: any client calls, any page events
\* ------------------------------------------------------------------------
NoConfig == [numApps |-> 0, numScen |-> 0, repeat |-> 0, concurrency |-> 0, html |-> <<>>]
NoAggregate == [successful |-> 0, failed |-> 0, errors |-> <<>>, totalRuns |-> 0]
NoAssistant == [id |-> "none", import_id |-> "none", importedAt |-> FALSE, age |-> 0]
NoMain == [pc |-> "idle", mode |-> "none", first |-> NoAggregate, exitCode |-> 0,
           exited |-> "no", assistantId |-> "none", importedAssistantId |-> "none",
           loaded |-> "none"]
NoProv == [pc |-> "idle", provider |-> "none", requested |-> "none", requests |-> <<>>,
           imported |-> NoAssistant, attempt |-> 0, log |-> <<>>, configured |-> "none",
           result |-> "none", assistantId |-> "none"]

SchedIdle ==
  /\ config = NoConfig
  /\ allRuns = <<>>
  /\ nextRunIndex = 0
  /\ spawned = 0
  /\ workers = <<>>
  /\ runState = <<>>
  /\ execCount = <<>>
  /\ bench = "idle"
  /\ aggregate = NoAggregate
  /\ prov = NoProv
  /\ main = NoMain

NoOpts == [record |-> FALSE, audioUrl |-> FALSE, appSteps |-> <<>>, scenarioSteps |-> <<>>]
NewTester == [browser |-> "null", page |-> FALSE, recordingStream |-> FALSE]
NoRun == [pc |-> "idle", steps |-> <<>>, i |-> 0, success |-> TRUE, error |-> "none",
          await |-> 0, cont |-> "none", result |-> "none"]
NoBrowser == [proc |-> "none", exposed |-> FALSE, playback |-> "none", speech |-> "none",
              recorder |-> FALSE, acquired |-> FALSE, recorded |-> FALSE,
              injected |-> FALSE, loaded |-> "none"]

RunIdle ==
  /\ opts = [t \in TesterIds |-> NoOpts]
  /\ tester = [t \in TesterIds |-> NewTester]
  /\ run = [t \in TesterIds |-> NoRun]
  /\ browserEnv = [t \in TesterIds |-> NoBrowser]
  /\ sinkLog = [t \in TesterIds |-> <<>>]

InitBroker ==
  /\ clock = 0
  /\ debug \in [TesterIds -> BOOLEAN]
  /\ waiters = <<>>
  /\ pendingPromises = [t \in TesterIds |-> [e \in EventTypes |-> <<>>]]
  /\ SchedIdle
  /\ RunIdle

BrokerWait == \E t \in TesterIds, e \in BrokerTypes, timeout \in Timeouts :
  /\ Len(waiters) < MaxWaiters
  /\ clock + timeout <= MaxClock
  /\ WaitForAudioEvent(t, e, timeout)
  /\ UNCHANGED <<schedVars, runVars>>
BrokerPublish == \E t \in TesterIds, e \in BrokerTypes : PublishEvent(t, e) /\ UNCHANGED <<schedVars, runVars>>
BrokerTimeout(w) == w \in WaiterIds /\ TimeoutHandler(w) /\ UNCHANGED <<schedVars, runVars>>
BrokerTimeoutReject(w) == w \in WaiterIds /\ TimeoutReject(w) /\ UNCHANGED <<schedVars, runVars>>
BrokerClear == \E t \in TesterIds : ClearAudioEventQueue(t) /\ UNCHANGED <<schedVars, runVars>>
BrokerTick == Tick(TickMs) /\ UNCHANGED <<schedVars, runVars>>

NextBroker ==
  \/ BrokerWait
  \/ BrokerPublish
  \/ \E w \in 1..MaxWaiters : BrokerTimeout(w)
  \/ \E w \in 1..MaxWaiters : BrokerTimeoutReject(w)
  \/ BrokerClear
  \/ BrokerTick

SpecBroker == InitBroker /\ [][NextBroker]_vars

\* Fairness: time passes, due timers run their handler, and the diagnostics
\* collection awaited by a handler returns (collectDiagnostics catches its
\* own errors).
FairSpecBroker ==
  /\ SpecBroker
  /\ WF_vars(BrokerTick)
  /\ \A w \in 1..MaxWaiters : WF_vars(BrokerTimeout(w))
  /\ \A w \in 1..MaxWaiters : WF_vars(BrokerTimeoutReject(w))

\* ------------------------------------------------------------------------
\* Claims on the event broker
\* ------------------------------------------------------------------------
HasEntry(w) ==
  \E t \in TesterIds, e \in EventTypes :
    \E k \in 1..Len(pendingPromises[t][e]) : pendingPromises[t][e][k].reject = w

Outstanding(w) == w \in WaiterIds /\ waiters[w].promise = "pending"
Cancelled(w) == w \in WaiterIds /\ waiters[w].promise \in {"cleared", "closed"}

NewlyResolved ==
  {w \in WaiterIds : waiters[w].promise = "pending" /\ waiters'[w].promise = "resolved"}

\* C1: one publish(T) resolves at most one outstanding waiter; the resolved
\* waiter has type T, belongs to the publishing tester, and no waiter of the
\* same type registered before it is still outstanding.
C1_PublishResolvesEarliest ==
  [][\A t \in TesterIds, e \in EventTypes :
       PublishEvent(t, e) =>
         /\ Cardinality(NewlyResolved) <= 1
         /\ \A w \in NewlyResolved :
              /\ waiters[w].tester = t
              /\ waiters[w].eventType = e
              /\ \A v \in WaiterIds :
                   (v < w /\ waiters[v].tester = t /\ waiters[v].eventType = e)
                     => ~Outstanding(v)]_vars

\* C1 witness: of two waiters of one type the earlier one has been resolved
\* by a publish while the later one is still outstanding.
C1_Witness ==
  \E u, v \in WaiterIds :
    /\ u < v
    /\ waiters[u].eventType = waiters[v].eventType
    /\ waiters[u].promise = "resolved"
    /\ Outstanding(v)

\* C2 (as claimed): a waiter that failed with Timeout has no entry left in
\* the registry.
C2_TimedOutWaiterRemoved ==
  \A w \in WaiterIds : waiters[w].promise = "timeout" => ~HasEntry(w)

\* C3: a wait never fails with Timeout before its deadline, and every
\* outstanding wait that is neither resolved by a publish nor cancelled
\* eventually fails with Timeout.
C3_TimeoutEventuallyNotEarly ==
  /\ [](\A w \in WaiterIds :
          waiters[w].promise = "timeout" => clock >= waiters[w].deadline)
  /\ \A w \in 1..MaxWaiters :
       Outstanding(w) ~>
         (w \in WaiterIds /\ (waiters[w].promise \in {"timeout", "resolved"} \/ Cancelled(w)))

\* C3 witness: a wait has failed with Timeout with no publish or cancel
\* having settled anything.
C3_Witness ==
  \E w \in WaiterIds :
    /\ waiters[w].promise = "timeout"
    /\ clock >= waiters[w].deadline
    /\ \A v \in WaiterIds : waiters[v].promise \in {"pending", "timeout"}

\* ------------------------------------------------------------------------
\* runBenchmark: the run queue and the worker pool
\* ------------------------------------------------------------------------
\* for (const app of applications) for (const scenario of scenarios) push
RECURSIVE PushScenarios(_, _, _)
PushScenarios(combinations, app, scenario) ==
  IF scenario > config.numScen THEN combinations
  ELSE PushScenarios(Append(combinations, [app |-> app, scenario |-> scenario]), app, scenario + 1)

RECURSIVE PushApplications(_, _)
PushApplications(combinations, app) ==
  IF app > config.numApps THEN combinations
  ELSE PushApplications(PushScenarios(combinations, app, 1), app + 1)

CombinationsScenariosOuter ==
  [i \in 1..(config.numApps * config.numScen) |->
     [app |-> ((i - 1) % config.numApps) + 1, scenario |-> ((i - 1) \div config.numApps) + 1]]
Combinations == PushApplications(<<>>, 1)

TotalRuns == Len(Combinations) * config.repeat

\* for (const {app, scenario} of combinations) for (i = 0; i < repeat; i++) push
RECURSIVE PushRepetitions(_, _, _)
PushRepetitions(runs, c, i) ==
  IF i >= config.repeat THEN runs
  ELSE PushRepetitions(
         Append(runs, [app |-> Combinations[c].app, scenario |-> Combinations[c].scenario,
                       repetition |-> i, runNumber |-> Len(runs) + 1]),
         c, i + 1)

RECURSIVE PushRuns(_, _)
PushRuns(runs, c) ==
  IF c > Len(Combinations) THEN runs
  ELSE PushRuns(PushRepetitions(runs, c, 0), c + 1)

BuildAllRuns == PushRuns(<<>>, 1)

MinIsMax(a, b) == IF a < b THEN b ELSE a
Min(a, b) == IF a < b THEN a ELSE b

\* const actualConcurrency = Math.min(concurrency, allRuns.length)
ActualConcurrency == Min(config.concurrency, Len(allRuns))

\* The part of executeRun before its try block: writing the temporary HTML
\* file of an application given as html can throw; an application given by
\* url has nothing that can.
SetupOutcomes(item) == IF config.html[item.app] THEN {"ok", "throw"} ELSE {"ok"}

\* The two values executeRun returns
SuccessResult(r) == [run |-> r, success |-> TRUE, error |-> "none"]
FailureResult(r) ==
  [run |-> r, success |-> FALSE,
   error |-> [app |-> allRuns[r].app, scenario |-> allRuns[r].scenario,
              repetition |-> allRuns[r].repetition, error |-> "shortMessage"]]

\* await Promise.all(workers): rejected as soon as one worker is rejected,
\* fulfilled when all have returned; reached once the spawning loop is done.
PromiseAll(ws, sp) ==
  IF bench = "rejected" THEN "rejected"
  ELSE IF sp < ActualConcurrency THEN "spawning"
  ELSE IF \E k \in 1..sp : ws[k].state = "rejected" THEN "rejected"
  ELSE IF \A k \in 1..sp : ws[k].state = "returned" THEN "returned"
  ELSE "waiting"

RECURSIVE Flatten(_, _)
Flatten(ws, k) == IF k > Len(ws) THEN <<>> ELSE ws[k].results \o Flatten(ws, k + 1)

RECURSIVE Filter(_, _)
Filter(seq, ok) ==
  IF seq = <<>> THEN <<>>
  ELSE IF Head(seq).success = ok THEN <<Head(seq)>> \o Filter(Tail(seq), ok)
  ELSE Filter(Tail(seq), ok)

\* The aggregate built from the flattened worker results
AggregateErrorsUnfiltered(ws) ==
  LET allResults == Flatten(ws, 1)
      failures == Filter(allResults, FALSE)
  IN [successful |-> Len(Filter(allResults, TRUE)),
      failed |-> Len(failures),
      errors |-> [i \in 1..Len(allResults) |-> allResults[i].error],
      totalRuns |-> TotalRuns]
Aggregate(ws) ==
  LET allResults == Flatten(ws, 1)
      failures == Filter(allResults, FALSE)
  IN [successful |-> Len(Filter(allResults, TRUE)),
      failed |-> Len(failures),
      errors |-> [i \in 1..Len(failures) |-> failures[i].error],
      totalRuns |-> TotalRuns]

\* One pass of runWorker(k) from the head of its while loop, holding
\* workerResults = results, up to its next await: claim the next run index
\* and call executeRun, or return. rs is runState as the caller leaves it.
RunWorker(k, results, rs, sp, setup) ==
  LET r == nextRunIndex + 1
      claimed == nextRunIndex < Len(allRuns)
      ws == IF ~claimed
            THEN [workers EXCEPT ![k] = [state |-> "returned", run |-> 0, results |-> results]]
            ELSE IF setup = "ok"
            THEN [workers EXCEPT ![k] = [state |-> "awaiting", run |-> r, results |-> results]]
            ELSE [workers EXCEPT ![k] = [state |-> "rejected", run |-> r, results |-> results]]
  IN /\ claimed => setup \in SetupOutcomes(allRuns[r])
     /\ ~claimed => setup = "ok"
     /\ nextRunIndex' = IF claimed THEN nextRunIndex + 1 ELSE nextRunIndex
     /\ execCount' = IF claimed THEN [execCount EXCEPT ![r] = @ + 1] ELSE execCount
     /\ runState' = IF ~claimed THEN rs
                    ELSE IF setup = "ok" THEN [rs EXCEPT ![r] = "running"]
                    ELSE [rs EXCEPT ![r] = "crashed"]
     /\ workers' = ws
     /\ spawned' = sp
     /\ bench' = PromiseAll(ws, sp)
     /\ aggregate' = IF PromiseAll(ws, sp) = "returned" THEN Aggregate(ws) ELSE aggregate
     /\ UNCHANGED <<config, allRuns, prov, main>>

\* for (let i = 0; i < actualConcurrency; i++) workers.push(runWorker(i + 1))
StartWorker(setup) ==
  /\ bench = "spawning"
  /\ spawned < ActualConcurrency
  /\ RunWorker(spawned + 1, <<>>, runState, spawned + 1, setup)

\* The executeRun call of run r settles with result, and the worker awaiting
\* it pushes the result and goes round its loop.
ExecuteRunSettles(r, result, setup) ==
  LET k == CHOOSE k \in 1..Len(workers) : workers[k].state = "awaiting" /\ workers[k].run = r
  IN /\ runState[r] = "running"
     /\ RunWorker(k, Append(workers[k].results, result),
                  [runState EXCEPT ![r] = IF result.success THEN "succeeded" ELSE "failed"],
                  spawned, setup)

\* await tester.runScenario(...) inside executeRun returns or throws
RunScenarioReturns(r, setup) == ExecuteRunSettles(r, SuccessResult(r), setup)
RunScenarioThrows(r, setup) == ExecuteRunSettles(r, FailureResult(r), setup)

Configs ==
  {c \in [numApps : 1..MaxApps, numScen : 1..MaxScenarios, repeat : 1..MaxRepeat,
          concurrency : 1..MaxConcurrency, html : [1..MaxApps -> BOOLEAN]] :
     /\ c.numApps * c.numScen * c.repeat <= MaxRuns
     /\ \A a \in 1..MaxApps : a > c.numApps => ~c.html[a]}

SchedInit(cfgs) ==
  /\ config \in cfgs
  /\ allRuns = BuildAllRuns
  /\ nextRunIndex = 0
  /\ spawned = 0
  /\ workers = [k \in 1..Min(config.concurrency, TotalRuns) |->
                  [state |-> "unspawned", run |-> 0, results |-> <<>>]]
  /\ runState = [r \in 1..TotalRuns |-> "queued"]
  /\ execCount = [r \in 1..TotalRuns |-> 0]
  /\ bench = "spawning"
  /\ aggregate = NoAggregate
  /\ prov = NoProv
  /\ main = NoMain

BrokerIdle ==
  /\ clock = 0
  /\ debug = [t \in TesterIds |-> FALSE]
  /\ waiters = <<>>
  /\ pendingPromises = [t \in TesterIds |-> [e \in EventTypes |-> <<>>]]

Init == SchedInit(Configs) /\ BrokerIdle /\ RunIdle

SchedStart == \E setup \in {"ok", "throw"} : StartWorker(setup) /\ UNCHANGED <<brokerVars, runVars>>
SchedReturn == \E r \in DOMAIN runState, setup \in {"ok", "throw"} :
  RunScenarioReturns(r, setup) /\ UNCHANGED <<brokerVars, runVars>>
SchedThrow == \E r \in DOMAIN runState, setup \in {"ok", "throw"} :
  RunScenarioThrows(r, setup) /\ UNCHANGED <<brokerVars, runVars>>

Next ==
  \/ SchedStart
  \/ SchedReturn
  \/ SchedThrow

Spec == Init /\ [][Next]_vars

\* ------------------------------------------------------------------------
\* Claims on the scheduler
\* ------------------------------------------------------------------------
AllWorkersSettled ==
  /\ bench \in {"waiting", "returned", "rejected"}
  /\ \A k \in 1..Len(workers) : workers[k].state \in {"returned", "rejected"}

ResultsOf(r) ==
  LET allResults == Flatten(workers, 1)
  IN {i \in 1..Len(allResults) : allResults[i].run = r}

\* C5 (as claimed): no run is executed twice, exactly min(K, totalRuns)
\* workers are spawned, and once every worker has finished each run of the
\* queue has been executed exactly once.
C5_EachRunExactlyOnce ==
  /\ \A r \in DOMAIN execCount : execCount[r] <= 1
  /\ bench # "spawning" => spawned = Min(config.concurrency, TotalRuns)
  /\ AllWorkersSettled => \A r \in DOMAIN execCount : execCount[r] = 1

\* C6 (as claimed): once a run has failed, in its setup or in runScenario,
\* runBenchmark is still not rejected, the failed run has been executed once
\* only, and when the workers are done every run of the queue has been
\* executed and runBenchmark has returned its aggregate.
C6_FailureIsolated ==
  \A r \in DOMAIN runState :
    runState[r] \in {"failed", "crashed"} =>
      /\ bench # "rejected"
      /\ execCount[r] = 1
      /\ AllWorkersSettled =>
           /\ bench = "returned"
           /\ \A q \in DOMAIN runState : runState[q] \in {"succeeded", "failed"}

\* C8 (as claimed): a run whose executeRun call is over has exactly one
\* result with the worker results, Succeeded or Failed, and a Failed result
\* names the run's app, scenario and repetition with its error.
C8_ExactlyOneOutcome ==
  \A r \in DOMAIN runState :
    runState[r] \notin {"queued", "running"} =>
      /\ Cardinality(ResultsOf(r)) = 1
      /\ \A i \in ResultsOf(r) :
           LET result == Flatten(workers, 1)[i]
           IN IF result.success
              THEN runState[r] = "succeeded"
              ELSE /\ runState[r] = "failed"
                   /\ result.error.app = allRuns[r].app
                   /\ result.error.scenario = allRuns[r].scenario
                   /\ result.error.repetition = allRuns[r].repetition
                   /\ result.error.error # "none"

\* ------------------------------------------------------------------------
\* runScenario: one run on its own tester, step by step
\* ------------------------------------------------------------------------
\* Files present in the assets folder
AssetFiles == {"hello.mp3"}

\* Step records as loaded from the application and scenario files
BaseStep(action) ==
  [action |-> action, selector |-> FALSE, text |-> FALSE, file |-> "none",
   time |-> FALSE, evaluation |-> FALSE, metrics |-> {}]
SpeakFile == [BaseStep("speak") EXCEPT !.file = "hello.mp3"]
SpeakMissingFile == [BaseStep("speak") EXCEPT !.file = "missing.mp3"]
SpeakText == [BaseStep("speak") EXCEPT !.text = TRUE]
ClickStep == [BaseStep("click") EXCEPT !.selector = TRUE]
WaitForVoice == [BaseStep("wait_for_voice") EXCEPT !.metrics = {"elapsed_time", "score"}]
WaitForSilence == BaseStep("wait_for_silence")
SleepStep == [BaseStep("sleep") EXCEPT !.time = TRUE]
ListenStep == [BaseStep("listen") EXCEPT !.evaluation = TRUE, !.metrics = {"score"}]
UnknownStep == BaseStep("hangup")

AppStepLists == {<<>>, <<ClickStep>>}
ScenarioStepLists ==
  {<<SpeakFile>>, <<SpeakMissingFile>>, <<WaitForVoice, SpeakText>>,
   <<UnknownStep, SleepStep, WaitForSilence>>, <<ListenStep>>}

\* Positions of runScenario at which it is not suspended on an await: the
\* code runs on from there before any timer, page event or automation reply
\* is handled.
SyncPcs == {"beginRun", "startRecording", "startAudio", "step", "stepDone", "catch",
            "finally", "endRun", "close", "rejectPending", "settle"}

AwaitedSettled(t) ==
  /\ run[t].pc = "awaitEvent"
  /\ waiters[run[t].await].promise # "pending"

Busy == \E t \in TesterIds : run[t].pc \in SyncPcs \/ AwaitedSettled(t)

At(t, pc) == run[t].pc = pc
Suspended(t, pc) == ~Busy /\ run[t].pc = pc

\* What the code does when an awaited promise settles: go on, or throw
ResumeSwallowsRejection(promise, cont) == cont
ResumeTarget(promise, cont) == IF promise = "resolved" THEN cont ELSE "catch"

RejectionError(promise) == IF promise = "timeout" THEN "Timeout" ELSE "Cancelled"

\* if (this.browser) in close()
CloseGuardNeedsPage(t) == tester[t].browser # "null" /\ tester[t].page
CloseGuard(t) == tester[t].browser # "null"

\* runWorker claims the run, executeRun sets it up and calls runScenario
RunStart(setup) ==
  /\ StartWorker(setup)
  /\ run' = IF setup = "ok"
            THEN [run EXCEPT ![nextRunIndex + 1] = [NoRun EXCEPT !.pc = "beginRun"]]
            ELSE run
  /\ UNCHANGED <<brokerVars, opts, tester, browserEnv, sinkLog>>

\* The metrics sink records a call and returns
SinkCall(log, entry) == Append(log, entry)

\* const steps = [...appSteps, ...scenarioSteps]
CombineStepsScenarioFirst(appSteps, scenarioSteps) == scenarioSteps \o appSteps
CombineSteps(appSteps, scenarioSteps) == appSteps \o scenarioSteps

\* reportGenerator.beginRun, steps = [...appSteps, ...scenarioSteps], launch()
BeginRun(t) ==
  /\ At(t, "beginRun")
  /\ sinkLog' = [sinkLog EXCEPT ![t] = SinkCall(@, [call |-> "beginRun"])]
  /\ run' = [run EXCEPT ![t].steps = CombineSteps(opts[t].appSteps, opts[t].scenarioSteps),
                        ![t].pc = "launch"]
  /\ UNCHANGED <<brokerVars, schedVars, opts, tester, browserEnv>>

\* launch(): getInstalledBrowsers and puppeteer.launch / launchWithStream
LaunchBrowser(t, ok) ==
  /\ Suspended(t, "launch")
  /\ IF ok
     THEN /\ tester' = [tester EXCEPT ![t].browser = "open"]
          /\ browserEnv' = [browserEnv EXCEPT ![t].proc = "running", ![t].acquired = TRUE]
          /\ run' = [run EXCEPT ![t].pc = "newPage"]
     ELSE /\ run' = [run EXCEPT ![t].pc = "catch", ![t].error = "LaunchError"]
          /\ UNCHANGED <<tester, browserEnv>>
  /\ UNCHANGED <<brokerVars, schedVars, opts, sinkLog>>

\* launch(): browser.version, permissions, newPage, exposeFunction
NewPage(t, outcome) ==
  /\ Suspended(t, "newPage")
  /\ tester' = IF outcome = "noPage" THEN tester ELSE [tester EXCEPT ![t].page = TRUE]
  /\ browserEnv' = IF outcome = "ok" THEN [browserEnv EXCEPT ![t].exposed = TRUE] ELSE browserEnv
  /\ run' = IF outcome = "ok"
            THEN [run EXCEPT ![t].pc = "inject"]
            ELSE [run EXCEPT ![t].pc = "catch", ![t].error = "LaunchError"]
  /\ UNCHANGED <<brokerVars, schedVars, opts, sinkLog>>

\* An awaited automation call that sets nothing on the tester
AutomationCall(t, pc, next, ok) ==
  /\ Suspended(t, pc)
  /\ run' = IF ok THEN [run EXCEPT ![t].pc = next]
            ELSE [run EXCEPT ![t].pc = "catch", ![t].error = "AutomationError"]
  /\ UNCHANGED <<brokerVars, schedVars, opts, tester, browserEnv, sinkLog>>

\* injectJavaScriptFiles(): the first evaluateOnNewDocument can throw; a
\* missing javascript folder, or a script file that cannot be read or
\* registered, is logged and the method returns normally
InjectJavaScriptFiles(t, outcome) ==
  /\ Suspended(t, "inject")
  /\ IF outcome = "throw"
     THEN /\ run' = [run EXCEPT ![t].pc = "catch", ![t].error = "AutomationError"]
          /\ UNCHANGED browserEnv
     ELSE /\ browserEnv' = [browserEnv EXCEPT ![t].injected = (outcome = "ok")]
          /\ run' = [run EXCEPT ![t].pc = "goto"]
  /\ UNCHANGED <<brokerVars, schedVars, opts, tester, sinkLog>>

\* await this.page.goto(url, { waitUntil: 'load' })
PageGoto(t, ok) ==
  /\ Suspended(t, "goto")
  /\ IF ok
     THEN /\ browserEnv' = [browserEnv EXCEPT ![t].loaded = "load"]
          /\ run' = [run EXCEPT ![t].pc = "networkIdle"]
     ELSE /\ run' = [run EXCEPT ![t].pc = "catch", ![t].error = "AutomationError"]
          /\ UNCHANGED browserEnv
  /\ UNCHANGED <<brokerVars, schedVars, opts, tester, sinkLog>>

\* await this.page.waitForNetworkIdle({ timeout: 5000, concurrency: 2 })
WaitForNetworkIdle(t, ok) ==
  /\ Suspended(t, "networkIdle")
  /\ IF ok
     THEN /\ browserEnv' = [browserEnv EXCEPT ![t].loaded = "idle"]
          /\ run' = [run EXCEPT ![t].pc = "sleep"]
     ELSE /\ run' = [run EXCEPT ![t].pc = "catch", ![t].error = "AutomationError"]
          /\ UNCHANGED browserEnv
  /\ UNCHANGED <<brokerVars, schedVars, opts, tester, sinkLog>>

\* await this.sleep(500)
SleepAfterLoad(t) == AutomationCall(t, "sleep", "startRecording", TRUE)

\* startRecording(): returns at once unless recording is enabled
StartRecording(t) ==
  /\ At(t, "startRecording")
  /\ run' = [run EXCEPT ![t].pc =
               IF opts[t].record /\ tester[t].page THEN "getStream" ELSE "startAudio"]
  /\ UNCHANGED <<brokerVars, schedVars, opts, tester, browserEnv, sinkLog>>

\* startRecording(): this.recordingStream = await getStream(...)
GetStream(t, ok) ==
  /\ Suspended(t, "getStream")
  /\ IF ok
     THEN /\ tester' = [tester EXCEPT ![t].recordingStream = TRUE]
          /\ browserEnv' = [browserEnv EXCEPT ![t].recorded = TRUE]
          /\ run' = [run EXCEPT ![t].pc = "startAudio"]
     ELSE /\ run' = [run EXCEPT ![t].pc = "catch", ![t].error = "AutomationError"]
          /\ UNCHANGED <<tester, browserEnv>>
  /\ UNCHANGED <<brokerVars, schedVars, opts, sinkLog>>

\* if (this.audioUrl) await this.startAudioFromUrl(...)
StartAudio(t) ==
  /\ At(t, "startAudio")
  /\ run' = [run EXCEPT ![t].pc = IF opts[t].audioUrl THEN "startAudioFromUrl" ELSE "step"]
  /\ UNCHANGED <<brokerVars, schedVars, opts, tester, browserEnv, sinkLog>>

\* startAudioFromUrl catches its own errors
StartAudioFromUrl(t) == AutomationCall(t, "startAudioFromUrl", "step", TRUE)

\* The handler's await this.waitForAudioEvent(eventType) with the default timeout
AwaitAudioEventNotAwaited(t, eventType, cont) ==
  /\ WaitForAudioEvent(t, eventType, DefaultTimeoutMs)
  /\ run' = [run EXCEPT ![t].pc = "stepDone", ![t].result = "none"]
AwaitAudioEvent(t, eventType, cont) ==
  /\ WaitForAudioEvent(t, eventType, DefaultTimeoutMs)
  /\ run' = [run EXCEPT ![t].pc = "awaitEvent", ![t].await = Len(waiters) + 1,
                        ![t].cont = cont]

\* A throw inside runScenario's try block
ThrowSkipsStep(t, error) == run' = [run EXCEPT ![t].pc = "stepDone"]
Throw(t, error) == run' = [run EXCEPT ![t].pc = "catch", ![t].error = error]

CurrentStep(t) == run[t].steps[run[t].i + 1]

\* handleSpeak's checks before it touches the page
SpeakValid(step) ==
  /\ step.text \/ step.file # "none"
  /\ ~(step.text /\ step.file # "none")
  /\ step.file # "none" => step.file \in AssetFiles

\* The case labels of the switch in executeStep
KnownActions == {"click", "wait_for_voice", "wait_for_silence", "wait", "speak", "listen",
                 "sleep", "wait_for_element", "type", "fill", "select", "screenshot"}

\* default: console.log(`Unknown action: ${action}`), handlerResult stays undefined
UnknownActionThrows(t) == Throw(t, "StepFailure")
UnknownAction(t) == run' = [run EXCEPT ![t].pc = "stepDone", ![t].result = "none"]

\* for (let i = 0; i < steps.length; i++) executeStep(steps[i], i, ...): the
\* switch on step.action up to the handler's first await
ExecuteStep(t) ==
  /\ At(t, "step")
  /\ IF run[t].i >= Len(run[t].steps)
     THEN run' = [run EXCEPT ![t].pc = "finalSleep"] /\ UNCHANGED <<brokerVars, browserEnv>>
     ELSE LET step == CurrentStep(t) IN
       CASE step.action \in {"click", "wait", "wait_for_element"} ->
              /\ IF step.selector THEN run' = [run EXCEPT ![t].pc = "dom"]
                 ELSE Throw(t, "StepFailure")
              /\ UNCHANGED <<brokerVars, browserEnv>>
         [] step.action = "wait_for_voice" ->
              AwaitAudioEvent(t, "audiostart", "stepDone") /\ UNCHANGED browserEnv
         [] step.action = "wait_for_silence" ->
              AwaitAudioEvent(t, "audiostop", "stepDone") /\ UNCHANGED browserEnv
         [] step.action = "speak" ->
              /\ IF SpeakValid(step)
                 THEN /\ run' = [run EXCEPT ![t].pc = "speakEvaluate"]
                      /\ browserEnv' = [browserEnv EXCEPT ![t].playback = "none",
                                                          ![t].speech = "none"]
                 ELSE Throw(t, "StepFailure") /\ UNCHANGED browserEnv
              /\ UNCHANGED brokerVars
         [] step.action = "listen" ->
              /\ IF step.evaluation THEN run' = [run EXCEPT ![t].pc = "listenStart"]
                 ELSE Throw(t, "StepFailure")
              /\ UNCHANGED <<brokerVars, browserEnv>>
         [] step.action = "sleep" ->
              /\ IF step.time THEN run' = [run EXCEPT ![t].pc = "sleeping"]
                 ELSE Throw(t, "StepFailure")
              /\ UNCHANGED <<brokerVars, browserEnv>>
         [] OTHER ->
              /\ UnknownAction(t)
              /\ UNCHANGED <<brokerVars, browserEnv>>
  /\ UNCHANGED <<schedVars, opts, tester, sinkLog>>

\* handleClick, handleWait, handleWaitForElement: waitForSelector and the action
DomAction(t, ok) ==
  /\ Suspended(t, "dom")
  /\ run' = IF ok THEN [run EXCEPT ![t].pc = "stepDone", ![t].result = "none"]
            ELSE [run EXCEPT ![t].pc = "catch", ![t].error = "AutomationError"]
  /\ UNCHANGED <<brokerVars, schedVars, opts, tester, browserEnv, sinkLog>>

\* handleSleep
SleepDone(t) ==
  /\ Suspended(t, "sleeping")
  /\ run' = [run EXCEPT ![t].pc = "stepDone", ![t].result = "none"]
  /\ UNCHANGED <<brokerVars, schedVars, opts, tester, browserEnv, sinkLog>>

\* handleSpeak: the page runs the evaluated function and starts the playback
SpeakTrigger(t) ==
  /\ Suspended(t, "speakEvaluate")
  /\ browserEnv[t].injected
  /\ browserEnv[t].playback = "none"
  /\ browserEnv[t].proc = "running"
  /\ browserEnv' = [browserEnv EXCEPT ![t].playback = "playing"]
  /\ UNCHANGED <<brokerVars, schedVars, opts, tester, run, sinkLog>>

\* handleSpeak: page.evaluate returns, then await waitForAudioEvent('speechend')
SpeakEvaluateReturns(t) ==
  /\ Suspended(t, "speakEvaluate")
  /\ browserEnv[t].playback # "none"
  /\ AwaitAudioEvent(t, "speechend", "stepDone")
  /\ UNCHANGED <<schedVars, opts, tester, browserEnv, sinkLog>>

\* handleSpeak: page.evaluate rejects (no __speak in the page, page gone)
SpeakEvaluateThrows(t) ==
  /\ Suspended(t, "speakEvaluate")
  /\ Throw(t, "AutomationError")
  /\ UNCHANGED <<brokerVars, schedVars, opts, tester, browserEnv, sinkLog>>

\* The events handleListen waits for, in the order of its awaits
ListenWaitsAudioFirst == <<"audiostart", "recordingstart", "audiostop", "recordingcomplete">>
ListenWaits == <<"recordingstart", "audiostart", "audiostop", "recordingcomplete">>

\* handleListen: page.evaluate(__startRecording), then wait for recordingstart
ListenStart(t, ok) ==
  /\ Suspended(t, "listenStart")
  /\ IF ok
     THEN /\ AwaitAudioEvent(t, ListenWaits[1], "listenAudioStart")
          /\ browserEnv' = [browserEnv EXCEPT ![t].recorder = TRUE]
     ELSE Throw(t, "AutomationError") /\ UNCHANGED <<brokerVars, browserEnv>>
  /\ UNCHANGED <<schedVars, opts, tester, sinkLog>>

\* handleListen: page.evaluate(__stopRecording), then wait for recordingcomplete
ListenStop(t, ok) ==
  /\ Suspended(t, "listenStop")
  /\ IF ok
     THEN /\ AwaitAudioEvent(t, ListenWaits[4], "listenProcess")
          /\ browserEnv' = [browserEnv EXCEPT ![t].recorder = FALSE]
     ELSE Throw(t, "AutomationError") /\ UNCHANGED <<brokerVars, browserEnv>>
  /\ UNCHANGED <<schedVars, opts, tester, sinkLog>>

\* handleListen: save the audio, transcribe, evaluate, return the score
ListenProcess(t, ok) ==
  /\ Suspended(t, "listenProcess")
  /\ run' = IF ok THEN [run EXCEPT ![t].pc = "stepDone", ![t].result = "score"]
            ELSE [run EXCEPT ![t].pc = "catch", ![t].error = "StepFailure"]
  /\ UNCHANGED <<brokerVars, schedVars, opts, tester, browserEnv, sinkLog>>

\* The awaited event promise has settled: the handler goes on or throws
AwaitResume(t) ==
  /\ AwaitedSettled(t)
  /\ LET promise == waiters[run[t].await].promise
         target == ResumeTarget(promise, run[t].cont)
     IN CASE target = "catch" ->
               Throw(t, RejectionError(promise)) /\ UNCHANGED brokerVars
          [] target = "stepDone" ->
               /\ run' = [run EXCEPT ![t].pc = "stepDone", ![t].result = "none"]
               /\ UNCHANGED brokerVars
          [] target = "listenAudioStart" -> AwaitAudioEvent(t, ListenWaits[2], "listenAudioStop")
          [] target = "listenAudioStop" -> AwaitAudioEvent(t, ListenWaits[3], "listenStop")
          [] OTHER -> run' = [run EXCEPT ![t].pc = target] /\ UNCHANGED brokerVars
  /\ UNCHANGED <<schedVars, opts, tester, browserEnv, sinkLog>>

\* Names of the metrics executeStep records for a step
StepMetricsUnrequested(step, handlerResult) ==
  {"elapsed_time"} \cup (IF handlerResult = "score" THEN {"score"} ELSE {})
StepMetrics(step, handlerResult) ==
  (step.metrics \cap {"elapsed_time"})
    \cup (IF handlerResult = "score" THEN step.metrics \cap {"score"} ELSE {})

\* executeStep after the handler returned: record the metrics, next step
StepDone(t) ==
  /\ At(t, "stepDone")
  /\ sinkLog' = [sinkLog EXCEPT ![t] =
       IF StepMetrics(CurrentStep(t), run[t].result) = {} THEN @
       ELSE SinkCall(@, [call |-> "recordStepMetric", stepIndex |-> run[t].i,
                       names |-> StepMetrics(CurrentStep(t), run[t].result)])]
  /\ run' = [run EXCEPT ![t].i = @ + 1, ![t].pc = "step"]
  /\ UNCHANGED <<brokerVars, schedVars, opts, tester, browserEnv>>

\* await this.sleep(500) after the last step
FinalSleep(t) ==
  /\ Suspended(t, "finalSleep")
  /\ run' = [run EXCEPT ![t].pc = "finally"]
  /\ UNCHANGED <<brokerVars, schedVars, opts, tester, browserEnv, sinkLog>>

\* catch (error) { success = false; throw error; }
Catch(t) ==
  /\ At(t, "catch")
  /\ run' = [run EXCEPT ![t].success = FALSE, ![t].pc = "finally"]
  /\ UNCHANGED <<brokerVars, schedVars, opts, tester, browserEnv, sinkLog>>

\* finally: if (this.audioUrl && this.page) await this.stopAudioFromUrl()
Finally(t) ==
  /\ At(t, "finally")
  /\ run' = [run EXCEPT ![t].pc =
               IF opts[t].audioUrl /\ tester[t].page THEN "stopAudio" ELSE "endRun"]
  /\ UNCHANGED <<brokerVars, schedVars, opts, tester, browserEnv, sinkLog>>

\* stopAudioFromUrl catches its own errors
StopAudioFromUrl(t) ==
  /\ Suspended(t, "stopAudio")
  /\ run' = [run EXCEPT ![t].pc = "endRun"]
  /\ UNCHANGED <<brokerVars, schedVars, opts, tester, browserEnv, sinkLog>>

\* finally: this.reportGenerator.endRun(app, scenario, repetition, success)
EndRunOnlyOnSuccess(t) ==
  /\ At(t, "endRun")
  /\ sinkLog' = [sinkLog EXCEPT ![t] =
       IF run[t].success THEN SinkCall(@, [call |-> "endRun", success |-> TRUE]) ELSE @]
  /\ run' = [run EXCEPT ![t].pc = "close"]
  /\ UNCHANGED <<brokerVars, schedVars, opts, tester, browserEnv>>
EndRun(t) ==
  /\ At(t, "endRun")
  /\ sinkLog' = [sinkLog EXCEPT ![t] = SinkCall(@, [call |-> "endRun", success |-> run[t].success])]
  /\ run' = [run EXCEPT ![t].pc = "close"]
  /\ UNCHANGED <<brokerVars, schedVars, opts, tester, browserEnv>>

\* close(): if (this.browser) { if (this.recordingStream) await stopRecording() ...
Close(t) ==
  /\ At(t, "close")
  /\ run' = [run EXCEPT ![t].pc =
               IF ~CloseGuard(t) THEN "settle"
               ELSE IF tester[t].recordingStream THEN "stopRecording"
               ELSE "rejectPending"]
  /\ UNCHANGED <<brokerVars, schedVars, opts, tester, browserEnv, sinkLog>>

\* stopRecording(): destroy the stream, await the file's finish, null the fields
StopRecording(t) ==
  /\ Suspended(t, "stopRecording")
  /\ tester' = [tester EXCEPT ![t].recordingStream = FALSE]
  /\ run' = [run EXCEPT ![t].pc = "rejectPending"]
  /\ UNCHANGED <<brokerVars, schedVars, opts, browserEnv, sinkLog>>

\* close(): the loop rejecting every pending promise, and pendingPromises.clear()
ClosePendingPromisesOnlyClears(t) ==
  /\ pendingPromises' = [pendingPromises EXCEPT ![t] = [e \in EventTypes |-> <<>>]]
  /\ UNCHANGED <<clock, debug, waiters>>
ClosePendingPromises(t) ==
  /\ waiters' = RejectAll(waiters, t, "closed")
  /\ pendingPromises' = [pendingPromises EXCEPT ![t] = [e \in EventTypes |-> <<>>]]
  /\ UNCHANGED <<clock, debug>>

\* close(): reject every pending promise, clear the map, call browser.close()
RejectPending(t) ==
  /\ At(t, "rejectPending")
  /\ ClosePendingPromises(t)
  /\ run' = [run EXCEPT ![t].pc = "browserClose"]
  /\ UNCHANGED <<schedVars, opts, tester, browserEnv, sinkLog>>

\* close(): await this.browser.close(); this.browser = null; this.page = null.
\* The call rejects only when the browser process is already gone.
BrowserClose(t, ok) ==
  /\ Suspended(t, "browserClose")
  /\ browserEnv' = [browserEnv EXCEPT ![t].proc = "exited", ![t].exposed = FALSE]
  /\ tester' = IF ok THEN [tester EXCEPT ![t].browser = "null", ![t].page = FALSE] ELSE tester
  /\ run' = IF ok \/ run[t].error # "none" THEN [run EXCEPT ![t].pc = "settle"]
            ELSE [run EXCEPT ![t].pc = "settle", ![t].error = "CloseError"]
  /\ UNCHANGED <<brokerVars, schedVars, opts, sinkLog>>

\* runScenario returns or throws into executeRun, whose worker goes on
SettleRun(t, setup) ==
  /\ At(t, "settle")
  /\ IF run[t].error = "none" THEN RunScenarioReturns(t, setup) ELSE RunScenarioThrows(t, setup)
  /\ run' = [run EXCEPT ![t].pc = "done",
                        ![t].result = IF run[t].error = "none" THEN "success" ELSE "failure"]
  /\ UNCHANGED <<brokerVars, opts, tester, browserEnv, sinkLog>>

\* When, relative to the run's speech-end wait, the page published speech-end
SpeechMoment(t) ==
  IF run[t].pc = "speakEvaluate" THEN "beforeWait"
  ELSE IF run[t].pc = "awaitEvent" /\ waiters[run[t].await].eventType = "speechend"
          /\ waiters[run[t].await].promise = "pending"
       THEN IF waiters[run[t].await].timer = "armed" THEN "duringWait" ELSE "duringDiagnostics"
       ELSE "afterFailure"

\* The injected scripts call __publishEvent(eventType); speech-end comes
\* from a playback
PagePublish(t, eventType) ==
  /\ ~Busy
  /\ browserEnv[t].exposed /\ browserEnv[t].proc = "running"
  /\ browserEnv[t].injected
  /\ eventType = "speechend" => browserEnv[t].playback = "playing"
  /\ PublishEvent(t, eventType)
  /\ browserEnv' = IF eventType = "speechend"
                   THEN [browserEnv EXCEPT ![t].playback = "ended", ![t].speech = SpeechMoment(t)]
                   ELSE browserEnv
  /\ UNCHANGED <<schedVars, opts, tester, run, sinkLog>>

\* Timers and the clock run only while no run has code to execute; every
\* wait of a run has the default timeout, and time is observed in those units
RunTimeout(w) == ~Busy /\ TimeoutHandler(w) /\ UNCHANGED <<schedVars, runVars>>
RunTimeoutReject(w) == ~Busy /\ TimeoutReject(w) /\ UNCHANGED <<schedVars, runVars>>
RunTick == ~Busy /\ Tick(DefaultTimeoutMs) /\ UNCHANGED <<schedVars, runVars>>

\* One run, one worker
RunConfigs == {c \in Configs : c.numApps * c.numScen * c.repeat = 1 /\ c.concurrency = 1}

InitRun ==
  /\ SchedInit(RunConfigs)
  /\ clock = 0
  /\ debug \in [TesterIds -> BOOLEAN]
  /\ waiters = <<>>
  /\ pendingPromises = [t \in TesterIds |-> [e \in EventTypes |-> <<>>]]
  /\ opts \in [TesterIds -> [record : BOOLEAN, audioUrl : BOOLEAN,
                             appSteps : AppStepLists, scenarioSteps : ScenarioStepLists]]
  /\ tester = [t \in TesterIds |-> NewTester]
  /\ run = [t \in TesterIds |-> NoRun]
  /\ browserEnv = [t \in TesterIds |-> NoBrowser]
  /\ sinkLog = [t \in TesterIds |-> <<>>]

NextRun ==
  \/ \E setup \in {"ok", "throw"} : RunStart(setup)
  \/ \E t \in TesterIds :
       \/ BeginRun(t)
       \/ \E ok \in BOOLEAN : LaunchBrowser(t, ok)
       \/ \E outcome \in {"ok", "noPage", "noCallback"} : NewPage(t, outcome)
       \/ \E outcome \in {"ok", "swallowed", "throw"} : InjectJavaScriptFiles(t, outcome)
       \/ \E ok \in BOOLEAN : PageGoto(t, ok)
       \/ \E ok \in BOOLEAN : WaitForNetworkIdle(t, ok)
       \/ SleepAfterLoad(t)
       \/ StartRecording(t)
       \/ \E ok \in BOOLEAN : GetStream(t, ok)
       \/ StartAudio(t)
       \/ StartAudioFromUrl(t)
       \/ ExecuteStep(t)
       \/ \E ok \in BOOLEAN : DomAction(t, ok)
       \/ SleepDone(t)
       \/ SpeakTrigger(t)
       \/ SpeakEvaluateReturns(t)
       \/ SpeakEvaluateThrows(t)
       \/ \E ok \in BOOLEAN : ListenStart(t, ok)
       \/ \E ok \in BOOLEAN : ListenStop(t, ok)
       \/ \E ok \in BOOLEAN : ListenProcess(t, ok)
       \/ AwaitResume(t)
       \/ StepDone(t)
       \/ FinalSleep(t)
       \/ Catch(t)
       \/ Finally(t)
       \/ StopAudioFromUrl(t)
       \/ EndRun(t)
       \/ Close(t)
       \/ StopRecording(t)
       \/ RejectPending(t)
       \/ \E ok \in BOOLEAN : BrowserClose(t, ok)
       \/ \E setup \in {"ok", "throw"} : SettleRun(t, setup)
       \/ \E eventType \in EventTypes : PagePublish(t, eventType)
  \/ \E w \in WaiterIds : RunTimeout(w)
  \/ \E w \in WaiterIds : RunTimeoutReject(w)
  \/ RunTick

SpecRun == InitRun /\ [][NextRun]_vars

\* ------------------------------------------------------------------------
\* Properties of a run
\* ------------------------------------------------------------------------
\* A finished run whose only step was speak with a supplied audio file and in
\* which no automation call and no validation failed
SpeakOnlyRunDone(t) ==
  /\ run[t].pc = "done"
  /\ run[t].steps = <<SpeakFile>>
  /\ run[t].error \in {"none", "Timeout", "Cancelled"}

C7_ClosedOnEveryExit ==
  \A t \in TesterIds : run[t].pc = "done" =>
    /\ browserEnv[t].acquired => browserEnv[t].proc = "exited"
    /\ ~tester[t].recordingStream
    /\ \A w \in WaiterIds : waiters[w].tester = t => waiters[w].promise # "pending"

\* A run that failed after it had a session and an active recording, and
\* returned with both released
C7_Witness ==
  \E t \in TesterIds :
    /\ run[t].pc = "done" /\ run[t].result = "failure"
    /\ browserEnv[t].acquired /\ browserEnv[t].recorded
    /\ browserEnv[t].proc = "exited" /\ ~tester[t].recordingStream

\* ------------------------------------------------------------------------
\* Provisioning: importAssistantsFromProvider and configureImportedAssistant
\* ------------------------------------------------------------------------
SUPPORTED_PROVIDERS == {"vapi", "elevenlabs", "retell"}

\* Providers and assistant ids the command line may carry
Providers == {"vapi", "acme"}
RequestedIds == {"a1", "a2"}

\* Assistants the import endpoint may answer with: import_metadata.import_id
\* may be absent, and so may import_metadata.imported_at
ImportedAssistants ==
  {a \in [id : {"t1"}, import_id : RequestedIds \cup {"undefined"}, importedAt : BOOLEAN,
          age : {ReuseThresholdMs - 1, ReuseThresholdMs, ReuseThresholdMs + 1}] :
     ~a.importedAt => a.age = ReuseThresholdMs}

\* What one configuration request may come to: fetch rejects, or a response
\* with a status whose body can or cannot be read
ConfigureOutcomes ==
  {[threw |-> TRUE, status |-> 0, readable |-> FALSE]}
    \cup [threw : {FALSE}, status : {200, 404, 500}, readable : BOOLEAN]

RECURSIVE Pow2(_)
Pow2(n) == IF n = 0 THEN 1 ELSE 2 * Pow2(n - 1)

\* const delay = INITIAL_DELAY_MS * Math.pow(2, attempt - 1)
DelayLinear(attempt) == INITIAL_DELAY_MS * attempt
Delay(attempt) == INITIAL_DELAY_MS * Pow2(attempt - 1)

\* if (importId !== assistantId)
ImportMismatchIgnoresAbsent(importId, assistantId) ==
  importId # "undefined" /\ importId # assistantId
ImportMismatch(importId, assistantId) == importId # assistantId

\* const isReused = importedAt && (Date.now() - new Date(importedAt).getTime() > 60000)
IsReusedAtThreshold(a) == a.importedAt /\ a.age >= ReuseThresholdMs
IsReused(a) == a.importedAt /\ a.age > ReuseThresholdMs

ProvFrame ==
  UNCHANGED <<brokerVars, runVars, config, allRuns, nextRunIndex, spawned, workers,
              runState, execCount, bench, aggregate, main>>

\* catch (error) { console.error(...); throw error; } and the throw before the try
ImportSwallowsError(p) == [p EXCEPT !.pc = "return"]
ImportThrows(p) == [p EXCEPT !.pc = "done", !.result = "threw"]

\* Provider validation, then createIntegrationSecret
CreateIntegrationSecret(ok) ==
  /\ prov.pc = "start"
  /\ prov' = IF prov.provider \notin SUPPORTED_PROVIDERS THEN ImportThrows(prov)
             ELSE IF ok THEN [prov EXCEPT !.pc = "import", !.requests = Append(@, "secret")]
             ELSE ImportThrows([prov EXCEPT !.requests = Append(@, "secret")])
  /\ ProvFrame

\* The import request fails: fetch rejects, a non-ok status, an unreadable body
ImportRequestFails ==
  /\ prov.pc = "import"
  /\ prov' = ImportThrows([prov EXCEPT !.requests = Append(@, "import")])
  /\ ProvFrame

\* The import request answers: the empty-list and mismatch checks, the re-use
\* test, and either the return or the first configuration attempt
ImportRequestAnswers(assistants) ==
  /\ prov.pc = "import"
  /\ LET p == [prov EXCEPT !.requests = Append(@, "import")] IN
     prov' = IF assistants = <<>> THEN ImportThrows(p)
             ELSE IF ImportMismatch(assistants[1].import_id, prov.requested)
             THEN ImportThrows([p EXCEPT !.imported = assistants[1]])
             ELSE IF IsReused(assistants[1])
             THEN [p EXCEPT !.imported = assistants[1], !.pc = "return"]
             ELSE [p EXCEPT !.imported = assistants[1], !.pc = "configure", !.attempt = 1]
  /\ ProvFrame

\* configureImportedAssistant returns false; the caller does not look at it
ConfigureFailureThrows(p) == [p EXCEPT !.pc = "done", !.configured = "false", !.result = "threw"]
ConfigureReturnsFalse(p) == [p EXCEPT !.pc = "return", !.configured = "false"]

\* Whether an attempt with this outcome goes to the sleep and the next attempt
RetriesAfterSuccess(attempt, o) == attempt < MAX_RETRIES
Retries(attempt, o) ==
  IF o.threw THEN attempt < MAX_RETRIES
  ELSE IF o.status = 200 THEN FALSE
  ELSE IF o.status = 404 /\ attempt < MAX_RETRIES THEN TRUE
  ELSE ~o.readable /\ attempt < MAX_RETRIES

\* One pass of the for loop of configureImportedAssistant up to its sleep or return
ConfigureAttempt(o) ==
  /\ prov.pc = "configure"
  /\ LET attempt == prov.attempt
         retry == Retries(attempt, o)
         entry == [attempt |-> attempt, outcome |-> o,
                   delay |-> IF retry THEN Delay(attempt) ELSE 0]
         p == [prov EXCEPT !.requests = Append(@, "configure"), !.log = Append(@, entry)]
     IN prov' = IF retry THEN [p EXCEPT !.pc = "sleep"]
                ELSE IF ~o.threw /\ o.status = 200
                THEN [p EXCEPT !.pc = "return", !.configured = "true"]
                ELSE ConfigureReturnsFalse(p)
  /\ ProvFrame

\* await sleep(delay); continue
ConfigureSleep ==
  /\ prov.pc = "sleep"
  /\ prov' = [prov EXCEPT !.pc = "configure", !.attempt = @ + 1]
  /\ ProvFrame

\* return { assistants: [...], assistantId: importedAssistant.id }
ImportReturns ==
  /\ prov.pc = "return"
  /\ prov' = [prov EXCEPT !.pc = "done", !.result = "returned", !.assistantId = prov.imported.id]
  /\ ProvFrame

InitProv ==
  /\ BrokerIdle
  /\ RunIdle
  /\ config = NoConfig
  /\ allRuns = <<>>
  /\ nextRunIndex = 0
  /\ spawned = 0
  /\ workers = <<>>
  /\ runState = <<>>
  /\ execCount = <<>>
  /\ bench = "idle"
  /\ aggregate = NoAggregate
  /\ main = NoMain
  /\ prov \in {[NoProv EXCEPT !.pc = "start", !.provider = pr, !.requested = id] :
                 pr \in Providers, id \in RequestedIds}

NextProv ==
  \/ \E ok \in BOOLEAN : CreateIntegrationSecret(ok)
  \/ ImportRequestFails
  \/ \E assistants \in {<<>>} \cup {<<a>> : a \in ImportedAssistants} :
       ImportRequestAnswers(assistants)
  \/ \E o \in ConfigureOutcomes : ConfigureAttempt(o)
  \/ ConfigureSleep
  \/ ImportReturns

SpecProv == InitProv /\ [][NextProv]_vars

\* Fairness: every update request is answered or fails, and every sleep ends
FairSpecProv ==
  /\ SpecProv
  /\ WF_vars(\E o \in ConfigureOutcomes : ConfigureAttempt(o))
  /\ WF_vars(ConfigureSleep)

\* ------------------------------------------------------------------------
\* Properties of provisioning
\* ------------------------------------------------------------------------
Failed(o) == o.threw \/ o.status # 200
BackoffMs == <<500, 1000, 2000, 4000>>

\* C9 as stated: configuration retries only on a 404 response, waiting 500,
\* 1000, 2000 and 4000 ms after failed attempts 1 to 4; a failure of attempt 5
\* gives the result false without an exception; any non-404 error on any
\* attempt fails configuration at once with no retry and no delay.
C9_RetriesOnlyOn404 ==
  \A i \in DOMAIN prov.log :
    LET e == prov.log[i] IN
      /\ e.delay > 0 => ~e.outcome.threw /\ e.outcome.status = 404 /\ e.delay = BackoffMs[i]
      /\ Failed(e.outcome) /\ (e.outcome.threw \/ e.outcome.status # 404) =>
           e.delay = 0 /\ i = Len(prov.log) /\ prov.configured = "false"
      /\ Failed(e.outcome) /\ i = MAX_RETRIES =>
           prov.configured = "false" /\ prov.result # "threw"

\* C9 amended: configuration retries after a 404 response and after a thrown
\* request error (a rejected request, or an error response whose body cannot
\* be read), waiting 500, 1000, 2000 and 4000 ms after failed attempts 1 to 4;
\* a failure of attempt 5 gives the result false without an exception; a
\* non-404 error response whose body is read fails configuration at once with
\* no retry and no delay.
C9_RetriesOn404OrThrownError ==
  /\ Len(prov.log) <= MAX_RETRIES
  /\ \A i \in DOMAIN prov.log :
       LET e == prov.log[i]
           thrown == e.outcome.threw \/ (e.outcome.status # 200 /\ ~e.outcome.readable)
       IN /\ e.attempt = i
          /\ e.delay > 0 <=> i < MAX_RETRIES /\ Failed(e.outcome)
                               /\ (e.outcome.status = 404 \/ thrown)
          /\ e.delay > 0 => e.delay = BackoffMs[i]
          /\ e.delay > 0 /\ i < Len(prov.log) => prov.log[i + 1].attempt = i + 1
          /\ Failed(e.outcome) /\ e.outcome.status # 404 /\ ~thrown =>
               e.delay = 0 /\ i = Len(prov.log) /\ prov.configured = "false"
          /\ Failed(e.outcome) /\ i = MAX_RETRIES =>
               prov.configured = "false" /\ prov.result # "threw"

\* Five failed attempts, one of them a rejected request that was retried, the
\* four waits taken, and the import returned with configuration false
C9_Witness ==
  /\ prov.pc = "done" /\ prov.result = "returned" /\ prov.configured = "false"
  /\ Len(prov.log) = MAX_RETRIES
  /\ [i \in 1..4 |-> prov.log[i].delay] = BackoffMs
  /\ \E i \in 1..4 : prov.log[i].outcome.threw
  /\ \E i \in 1..4 : ~prov.log[i].outcome.threw /\ prov.log[i].outcome.status = 404

ConfigureRequested == \E i \in DOMAIN prov.requests : prov.requests[i] = "configure"

\* C10: an import whose returned resource does not echo the requested
\* identifier (import_id differs from the requested id or is absent) fails the
\* whole import: no identifier is returned and no configuration request is
\* issued for the returned resource.
C10_MismatchFailsImport ==
  prov.imported # NoAssistant /\ prov.imported.import_id # prov.requested =>
    /\ prov.pc = "done" /\ prov.result = "threw"
    /\ prov.assistantId = "none"
    /\ ~ConfigureRequested

\* The import answered with a resource that carries no import_id and failed
C10_Witness ==
  /\ prov.imported # NoAssistant /\ prov.imported.import_id = "undefined"
  /\ prov.pc = "done" /\ prov.result = "threw" /\ ~ConfigureRequested

\* C11: a failure of configuration, at once or after the retries are used
\* up, is not fatal: importAssistantsFromProvider does not throw and returns
\* the identifier of the validated imported resource.
C11_ConfigureFailureNotFatal ==
  prov.configured = "false" =>
    /\ prov.result # "threw"
    /\ prov.imported.import_id = prov.requested
    /\ prov.pc = "done" => prov.result = "returned" /\ prov.assistantId = prov.imported.id

\* The first configuration attempt got a readable 500 and the import returned
C11_Witness ==
  /\ prov.pc = "done" /\ prov.result = "returned" /\ prov.assistantId = "t1"
  /\ prov.configured = "false"
  /\ Len(prov.log) = 1 /\ ~prov.log[1].outcome.threw /\ prov.log[1].outcome.status = 500

\* C12: provisioning is sequential and a failure of secret creation or of the
\* import aborts it: the import request comes only after the secret request
\* succeeded, configuration only after a validated import, and after a failure
\* of either no later request is issued and no identifier is produced.
C12_SequentialAbortOnFailure ==
  /\ \A i \in DOMAIN prov.requests :
       /\ prov.requests[i] = "secret" => i = 1
       /\ prov.requests[i] = "import" => i = 2 /\ prov.requests[1] = "secret"
       /\ prov.requests[i] = "configure" =>
            /\ i >= 3 /\ prov.requests[2] = "import"
            /\ prov.imported # NoAssistant /\ prov.imported.import_id = prov.requested
  /\ prov.result = "returned" =>
       /\ Len(prov.requests) >= 2
       /\ prov.imported # NoAssistant /\ prov.imported.import_id = prov.requested
       /\ prov.assistantId = prov.imported.id
  /\ prov.result = "threw" =>
       prov.pc = "done" /\ prov.assistantId = "none" /\ ~ConfigureRequested
  /\ prov.pc = "done" /\ Len(prov.requests) < 2 => prov.result = "threw"

\* Secret creation failed for a supported provider: nothing else was requested
C12_Witness ==
  /\ prov.provider \in SUPPORTED_PROVIDERS
  /\ prov.pc = "done" /\ prov.result = "threw"
  /\ prov.requests = <<"secret">> /\ prov.assistantId = "none"

\* ------------------------------------------------------------------------
\* A launched tester driven through its public methods until close()
\* ------------------------------------------------------------------------
LaunchedTester == [NewTester EXCEPT !.browser = "open", !.page = TRUE]
LaunchedBrowser == [NoBrowser EXCEPT !.proc = "running", !.exposed = TRUE, !.acquired = TRUE,
                                     !.injected = TRUE, !.loaded = "idle"]

InitTeardown ==
  /\ clock = 0
  /\ debug \in [TesterIds -> BOOLEAN]
  /\ waiters = <<>>
  /\ pendingPromises = [t \in TesterIds |-> [e \in EventTypes |-> <<>>]]
  /\ SchedIdle
  /\ opts = [t \in TesterIds |-> NoOpts]
  /\ tester = [t \in TesterIds |-> LaunchedTester]
  /\ run = [t \in TesterIds |-> NoRun]
  /\ browserEnv = [t \in TesterIds |-> LaunchedBrowser]
  /\ sinkLog = [t \in TesterIds |-> <<>>]

\* Steps call waitForAudioEvent while the tester is launched
TeardownWait == \E t \in TesterIds, e \in BrokerTypes, timeout \in Timeouts :
  /\ tester[t].browser = "open"
  /\ Len(waiters) < MaxWaiters
  /\ clock + timeout <= MaxClock
  /\ WaitForAudioEvent(t, e, timeout)
  /\ UNCHANGED <<schedVars, runVars>>

\* close() with no recording: the rejections, then await this.browser.close()
TeardownCloseSkipsRejections(t) ==
  /\ tester[t].browser = "open"
  /\ CloseGuard(t)
  /\ tester' = [tester EXCEPT ![t].browser = "closing"]
  /\ UNCHANGED <<brokerVars, schedVars, opts, run, browserEnv, sinkLog>>
TeardownClose(t) ==
  /\ tester[t].browser = "open"
  /\ CloseGuard(t)
  /\ ClosePendingPromises(t)
  /\ tester' = [tester EXCEPT ![t].browser = "closing"]
  /\ UNCHANGED <<schedVars, opts, run, browserEnv, sinkLog>>

\* close(): browser.close() has returned; this.browser = null; this.page = null
TeardownClosed(t) ==
  /\ tester[t].browser = "closing"
  /\ tester' = [tester EXCEPT ![t].browser = "null", ![t].page = FALSE]
  /\ browserEnv' = [browserEnv EXCEPT ![t].proc = "exited", ![t].exposed = FALSE]
  /\ UNCHANGED <<brokerVars, schedVars, opts, run, sinkLog>>

NextTeardown ==
  \/ TeardownWait
  \/ BrokerPublish
  \/ \E w \in 1..MaxWaiters : BrokerTimeout(w)
  \/ \E w \in 1..MaxWaiters : BrokerTimeoutReject(w)
  \/ BrokerTick
  \/ \E t \in TesterIds : TeardownClose(t)
  \/ \E t \in TesterIds : TeardownClosed(t)

SpecTeardown == InitTeardown /\ [][NextTeardown]_vars

TornDown(t) == tester[t].browser # "open"

\* C13: close() on a broker with N outstanding waiters, of any mix of event
\* types, fails all N with a Cancelled error, and every publish after the
\* teardown is a no-op that resolves nothing.
C13_TeardownCancelsAll ==
  /\ [][\A t \in TesterIds : TeardownClose(t) =>
          \A w \in WaiterIds :
            waiters[w].tester = t /\ Outstanding(w) => waiters'[w].promise = "closed"]_vars
  /\ [][\A t \in TesterIds, e \in EventTypes :
          TornDown(t) /\ PublishEvent(t, e) => UNCHANGED <<waiters, pendingPromises>>]_vars
  /\ [](\A t \in TesterIds : TornDown(t) =>
          \A w \in WaiterIds : waiters[w].tester = t => waiters[w].promise # "pending")

\* Two waiters of different event types were outstanding at close() and both
\* failed with the close error
C13_Witness ==
  \E u, v \in WaiterIds :
    /\ waiters[u].eventType # waiters[v].eventType
    /\ waiters[u].promise = "closed" /\ waiters[v].promise = "closed"
    /\ TornDown(waiters[u].tester)

RegistryEmpty(t) == \A e \in EventTypes : pendingPromises[t][e] = <<>>

\* C14: clearAudioEventQueue fails every outstanding waiter with Cancelled at
\* once and leaves the registry empty; it is idempotent (a second call with no
\* new waiter changes nothing and fails nothing), and a cancelled waiter never
\* fails with Timeout afterwards.
C14_CancelAllIdempotent ==
  /\ [][\A t \in TesterIds : ClearAudioEventQueue(t) =>
          /\ \A w \in WaiterIds :
               waiters[w].tester = t /\ Outstanding(w) => waiters'[w].promise = "cleared"
          /\ \A e \in EventTypes : pendingPromises'[t][e] = <<>>
          /\ RegistryEmpty(t) => UNCHANGED <<waiters, pendingPromises>>]_vars
  /\ [][\A w \in WaiterIds : Cancelled(w) => waiters'[w].promise = waiters[w].promise]_vars

\* A waiter was cancelled while its timeout handler was collecting
\* diagnostics; the handler then finished and the waiter stayed cancelled
C14_Witness ==
  \E w \in WaiterIds :
    /\ waiters[w].promise = "cleared"
    /\ waiters[w].timer = "fired"
    /\ RegistryEmpty(waiters[w].tester)

OutstandingOfType(t, e) ==
  \E w \in WaiterIds : waiters[w].tester = t /\ waiters[w].eventType = e /\ Outstanding(w)

\* C15 (as claimed): an event published while no waiter of its type is
\* outstanding is dropped, not buffered: it changes no broker state, so a
\* waitFor of that type registered afterwards is not satisfied by it.
C15_UnmatchedPublishDropped ==
  [][\A t \in TesterIds, e \in EventTypes :
       ~OutstandingOfType(t, e) /\ PublishEvent(t, e) =>
         UNCHANGED <<waiters, pendingPromises>>]_vars

\* Positions of a run inside executeStep: a step has begun and not yet resolved
StepPcs == {"dom", "sleeping", "speakEvaluate", "awaitEvent", "listenStart", "listenStop",
            "listenProcess", "stepDone"}
InStep(t) == run[t].pc \in StepPcs

\* The handler a run is in belongs to the step at its loop index
HandlerOfCurrentStep(t) ==
  LET action == CurrentStep(t).action IN
    /\ run[t].pc = "dom" => action \in {"click", "wait", "wait_for_element"}
    /\ run[t].pc = "sleeping" => action = "sleep"
    /\ run[t].pc = "speakEvaluate" => action = "speak"
    /\ run[t].pc \in {"listenStart", "listenStop", "listenProcess"} => action = "listen"
    /\ run[t].pc = "awaitEvent" =>
         action \in {"wait_for_voice", "wait_for_silence", "speak", "listen"}

\* C16: within one run the steps execute one after the other in declared
\* order, application steps first and then scenario steps: step i+1 never
\* begins before step i has fully resolved, and no two steps are in flight.
C16_StepsSequentialInOrder ==
  /\ [](\A t \in TesterIds :
          /\ run[t].pc \notin {"idle", "beginRun"} =>
               run[t].steps = opts[t].appSteps \o opts[t].scenarioSteps
          /\ InStep(t) => run[t].i < Len(run[t].steps) /\ HandlerOfCurrentStep(t))
  /\ [][\A t \in TesterIds :
          /\ ~InStep(t) /\ InStep(t)' => run[t].pc = "step" /\ run'[t].i = run[t].i
          /\ run'[t].i # run[t].i =>
               run[t].pc = "stepDone" /\ run'[t].i = run[t].i + 1 /\ run'[t].pc = "step"
          /\ InStep(t) /\ ~InStep(t)' => run'[t].pc \in {"step", "catch"}]_vars

\* The application's click and two scenario steps have resolved and the run
\* waits in its fourth step
C16_Witness ==
  \E t \in TesterIds :
    /\ Len(run[t].steps) = 4 /\ run[t].steps[1] = ClickStep
    /\ run[t].i = 3 /\ run[t].pc = "awaitEvent"
    /\ waiters[run[t].await].eventType = "audiostop"

\* The checks a step must pass for its handler not to throw at once
StepPassesChecks(step) ==
  /\ step.action \in {"click", "wait", "wait_for_element"} => step.selector
  /\ step.action = "speak" => SpeakValid(step)
  /\ step.action = "listen" => step.evaluation
  /\ step.action = "sleep" => step.time

\* Positions of runScenario after its catch block was entered
AbortPcs == {"catch", "finally", "stopAudio", "endRun", "close", "stopRecording",
             "rejectPending", "browserClose", "settle", "done"}

ConcurrentIds == 1..MaxTesters

\* executeRun: new VoiceAgentTester(...) per run, each with its own Map,
\* launched; argv.debug is off, or on for the first tester
InitConcurrent ==
  /\ clock = 0
  /\ debug \in {[t \in ConcurrentIds |-> t = d] : d \in 0..1}
  /\ waiters = <<>>
  /\ pendingPromises = [t \in ConcurrentIds |-> [e \in EventTypes |-> <<>>]]
  /\ SchedIdle
  /\ opts = [t \in ConcurrentIds |-> NoOpts]
  /\ tester = [t \in ConcurrentIds |-> LaunchedTester]
  /\ run = [t \in ConcurrentIds |-> NoRun]
  /\ browserEnv = [t \in ConcurrentIds |-> LaunchedBrowser]
  /\ sinkLog = [t \in ConcurrentIds |-> <<>>]

\* A run awaits its handlers one at a time: one outstanding wait per tester,
\* every tester running the same scenario step
ConcurrentWait == \E t \in ConcurrentIds, e \in {"speechend"} :
  /\ tester[t].browser = "open"
  /\ \A w \in WaiterIds : waiters[w].tester = t => waiters[w].promise # "pending"
  /\ Len(waiters) < MaxWaiters
  /\ clock + DefaultTimeoutMs <= MaxClock
  /\ WaitForAudioEvent(t, e, DefaultTimeoutMs)
  /\ UNCHANGED <<schedVars, runVars>>

\* The page of tester t calls the callback its own launch() exposed
ConcurrentPublish == \E t \in ConcurrentIds, e \in BrokerTypes :
  /\ browserEnv[t].exposed
  /\ PublishEvent(t, e)
  /\ UNCHANGED <<schedVars, runVars>>

ConcurrentClear == \E t \in ConcurrentIds :
  ClearAudioEventQueue(t) /\ UNCHANGED <<schedVars, runVars>>

\* Every wait has the default timeout; time is observed in those units
ConcurrentTick == Tick(DefaultTimeoutMs) /\ UNCHANGED <<schedVars, runVars>>

NextConcurrent ==
  \/ ConcurrentWait
  \/ ConcurrentPublish
  \/ ConcurrentClear
  \/ \E w \in 1..MaxWaiters : BrokerTimeout(w)
  \/ \E w \in 1..MaxWaiters : BrokerTimeoutReject(w)
  \/ ConcurrentTick
  \/ \E t \in ConcurrentIds : TeardownClose(t)
  \/ \E t \in ConcurrentIds : TeardownClosed(t)

SpecConcurrent == InitConcurrent /\ [][NextConcurrent]_vars

\* Nothing of any tester other than t changes in the step
OthersUntouched(t) ==
  \A u \in ConcurrentIds \ {t} :
    /\ pendingPromises'[u] = pendingPromises[u]
    /\ \A w \in WaiterIds : waiters[w].tester = u => waiters'[w] = waiters[w]

\* C18: event brokers are never shared across runs: an event published by
\* one run's page never resolves, times out or cancels a waiter of another
\* run, and tearing down or clearing one run's broker leaves the waiters of
\* every other run untouched.
C18_BrokersNotShared ==
  /\ [][\A t \in ConcurrentIds :
          (\/ \E e \in EventTypes : PublishEvent(t, e)
           \/ TeardownClose(t)
           \/ ClearAudioEventQueue(t)) => OthersUntouched(t)]_vars
  /\ [](\A t \in ConcurrentIds, e \in EventTypes :
          \A k \in 1..Len(pendingPromises[t][e]) :
            waiters[pendingPromises[t][e][k].reject].tester = t)

\* One run's page resolved its own waiter while an earlier waiter of the same
\* event type, of another run, stayed outstanding; that other run's waiter
\* also survived the first run's teardown
C18_Witness ==
  \E u, v \in WaiterIds :
    /\ u < v
    /\ waiters[u].tester # waiters[v].tester
    /\ waiters[u].eventType = waiters[v].eventType
    /\ Outstanding(u)
    /\ waiters[v].promise = "resolved"
    /\ tester[waiters[v].tester].browser = "null"

\* Runs whose executeRun call has begun runScenario and has not settled
InFlight == {r \in DOMAIN runState : runState[r] = "running"}

\* C19: at every moment the number of runs in flight is at most
\* min(K, totalRuns), K being the configured concurrency.
C19_InFlightBounded ==
  /\ Cardinality(InFlight) <= config.concurrency
  /\ Cardinality(InFlight) <= TotalRuns

\* As many runs in flight as the concurrency allows while more are queued
C19_Witness ==
  /\ config.concurrency >= 2
  /\ TotalRuns > config.concurrency
  /\ Cardinality(InFlight) = config.concurrency
  /\ nextRunIndex < TotalRuns

\* ------------------------------------------------------------------------
\* main(): one benchmark, or the two phases of comparison mode, then exit
\* ------------------------------------------------------------------------
MainFrame == UNCHANGED <<brokerVars, runVars, prov>>

\* Batches explored under main(): at most two runs per benchmark
MainConfigs == {c \in Configs : c.numApps * c.numScen * c.repeat <= 2}

\* Phase 1 of comparison mode benchmarks the one provider application
InitMain ==
  /\ BrokerIdle
  /\ RunIdle
  /\ prov = NoProv
  /\ main \in {[NoMain EXCEPT !.pc = "benchmark", !.mode = m] : m \in {"standard", "comparison"}}
  /\ config \in {c \in MainConfigs : main.mode = "comparison" => c.numApps = 1}
  /\ allRuns = BuildAllRuns
  /\ nextRunIndex = 0
  /\ spawned = 0
  /\ workers = [k \in 1..Min(config.concurrency, TotalRuns) |->
                  [state |-> "unspawned", run |-> 0, results |-> <<>>]]
  /\ runState = [r \in 1..TotalRuns |-> "queued"]
  /\ execCount = [r \in 1..TotalRuns |-> 0]
  /\ bench = "spawning"
  /\ aggregate = NoAggregate

\* The process is alive: workers and runs go on until process.exit
MainBenchmark ==
  /\ main.pc # "exited"
  /\ Next

\* Comparison mode: phase 1 returned, the Telnyx applications are loaded and
\* the second runBenchmark call starts with the same scenarios and options
MainSecondPhase(c) ==
  /\ main.mode = "comparison" /\ main.pc = "benchmark"
  /\ bench = "returned"
  /\ c.numScen = config.numScen /\ c.repeat = config.repeat
  /\ c.concurrency = config.concurrency
  /\ main' = [main EXCEPT !.pc = "benchmark2", !.first = aggregate,
                          !.loaded = main.importedAssistantId]
  /\ config' = c
  /\ allRuns' = BuildAllRuns'
  /\ nextRunIndex' = 0
  /\ spawned' = 0
  /\ workers' = [k \in 1..Min(c.concurrency, Len(allRuns')) |->
                   [state |-> "unspawned", run |-> 0, results |-> <<>>]]
  /\ runState' = [r \in 1..Len(allRuns') |-> "queued"]
  /\ execCount' = [r \in 1..Len(allRuns') |-> 0]
  /\ bench' = "spawning"
  /\ aggregate' = NoAggregate
  /\ MainFrame

\* const totalFailed = providerResults.failed + telnyxResults.failed
TotalFailedLastPhase(first, second) == second.failed
TotalFailed(first, second) == first.failed + second.failed

LastPhase ==
  \/ main.mode = "standard" /\ main.pc = "benchmark"
  \/ main.mode = "comparison" /\ main.pc = "benchmark2"

\* The last runBenchmark call returned: if (failed > 0) exitCode = 1
MainSummary ==
  /\ LastPhase
  /\ bench = "returned"
  /\ main' = [main EXCEPT !.pc = "finally",
                          !.exitCode = IF TotalFailed(main.first, aggregate) > 0 THEN 1 ELSE 0]
  /\ UNCHANGED <<config, allRuns, nextRunIndex, spawned, workers, runState, execCount,
                 bench, aggregate>>
  /\ MainFrame

\* catch (error) { exitCode = 1 }: a runBenchmark call rejected, or loading
\* the second phase's applications threw
MainCatch ==
  /\ \/ main.pc \in {"benchmark", "benchmark2"} /\ bench = "rejected"
     \/ main.mode = "comparison" /\ main.pc = "benchmark" /\ bench = "returned"
  /\ main' = [main EXCEPT !.pc = "finally", !.exitCode = 1]
  /\ UNCHANGED <<config, allRuns, nextRunIndex, spawned, workers, runState, execCount,
                 bench, aggregate>>
  /\ MainFrame

\* finally: clean up, server.close(() => process.exit(exitCode))
MainExit ==
  /\ main.pc = "finally"
  /\ main' = [main EXCEPT !.pc = "exited", !.exited = IF main.exitCode = 0 THEN "zero" ELSE "nonzero"]
  /\ UNCHANGED <<config, allRuns, nextRunIndex, spawned, workers, runState, execCount,
                 bench, aggregate>>
  /\ MainFrame

NextMain ==
  \/ MainBenchmark
  \/ \E c \in MainConfigs : MainSecondPhase(c)
  \/ MainSummary
  \/ MainCatch
  \/ MainExit

SpecMain == InitMain /\ [][NextMain]_vars

\* Some run of the batch failed, in its setup or in runScenario
AnyRunFailed ==
  \/ main.first.failed > 0
  \/ \E r \in DOMAIN runState : runState[r] \in {"failed", "crashed"}

\* C20: the batch completes with a non-zero status if any run failed; in
\* comparison mode, if any run of either phase failed.
C20_NonZeroExitOnFailure ==
  main.pc = "exited" /\ AnyRunFailed => main.exited = "nonzero"

\* Comparison mode ended with a non-zero status because of a failure in the
\* first phase alone
C20_Witness ==
  /\ main.mode = "comparison" /\ main.pc = "exited" /\ main.exited = "nonzero"
  /\ main.first.failed > 0
  /\ aggregate.failed = 0 /\ bench = "returned" /\ aggregate.totalRuns > 0

\* ------------------------------------------------------------------------
\* main() with --provider: the import is awaited, then the benchmarks run
\* ------------------------------------------------------------------------
\* Configuration requests answered under main(): a readable response
MainConfigureOutcomes == {o \in ConfigureOutcomes : ~o.threw /\ o.readable}

\* Batches explored after an import: one worker
ImportConfigs == {c \in MainConfigs : c.concurrency = 1}

\* main() has reached await importAssistantsFromProvider({...})
InitMainImport ==
  /\ BrokerIdle
  /\ RunIdle
  /\ config = NoConfig
  /\ allRuns = <<>>
  /\ nextRunIndex = 0
  /\ spawned = 0
  /\ workers = <<>>
  /\ runState = <<>>
  /\ execCount = <<>>
  /\ bench = "idle"
  /\ aggregate = NoAggregate
  /\ main \in {[NoMain EXCEPT !.pc = "import", !.mode = m] : m \in {"standard", "comparison"}}
  /\ prov \in {[NoProv EXCEPT !.pc = "start", !.provider = pr, !.requested = id] :
                 pr \in Providers, id \in RequestedIds}

\* The steps of the awaited importAssistantsFromProvider call
MainImportSecret == main.pc = "import" /\ \E ok \in BOOLEAN : CreateIntegrationSecret(ok)
MainImportFails == main.pc = "import" /\ ImportRequestFails
MainImportAnswers ==
  /\ main.pc = "import"
  /\ \E assistants \in {<<>>} \cup {<<a>> : a \in ImportedAssistants} :
       ImportRequestAnswers(assistants)
MainImportConfigure ==
  main.pc = "import" /\ \E o \in MainConfigureOutcomes : ConfigureAttempt(o)
MainImportSleep == main.pc = "import" /\ ConfigureSleep
MainImportReturns == main.pc = "import" /\ ImportReturns

\* The value the import call returns
ImportResult ==
  [assistants |-> <<[id |-> prov.imported.id, import_id |-> prov.imported.import_id]>>,
   assistantId |-> prov.assistantId]

\* params.assistantId = selectedAssistant.id; importedAssistantId = selectedAssistant.id
InjectRequestedId(m, selectedAssistant) ==
  [m EXCEPT !.assistantId = prov.requested, !.importedAssistantId = prov.requested]
InjectAssistantId(m, selectedAssistant) ==
  [m EXCEPT !.assistantId = selectedAssistant.id, !.importedAssistantId = selectedAssistant.id]

\* The import returned: the id is injected, the applications are loaded (in
\* comparison mode the provider application, with providerImportId) and the
\* first runBenchmark call starts
MainImported(c) ==
  /\ main.pc = "import"
  /\ prov.pc = "done" /\ prov.result = "returned"
  /\ main.mode = "comparison" => c.numApps = 1
  /\ LET m == InjectAssistantId(main, ImportResult.assistants[1]) IN
     main' = [m EXCEPT !.pc = "benchmark",
                       !.loaded = IF main.mode = "comparison" THEN prov.requested
                                  ELSE m.assistantId]
  /\ config' = c
  /\ allRuns' = BuildAllRuns'
  /\ nextRunIndex' = 0
  /\ spawned' = 0
  /\ workers' = [k \in 1..Min(c.concurrency, Len(allRuns')) |->
                   [state |-> "unspawned", run |-> 0, results |-> <<>>]]
  /\ runState' = [r \in 1..Len(allRuns') |-> "queued"]
  /\ execCount' = [r \in 1..Len(allRuns') |-> 0]
  /\ bench' = "spawning"
  /\ aggregate' = NoAggregate
  /\ MainFrame

\* The import threw: catch (error) { exitCode = 1 }
MainImportThrew ==
  /\ main.pc = "import"
  /\ prov.pc = "done" /\ prov.result = "threw"
  /\ main' = [main EXCEPT !.pc = "finally", !.exitCode = 1]
  /\ UNCHANGED <<config, allRuns, nextRunIndex, spawned, workers, runState, execCount,
                 bench, aggregate>>
  /\ MainFrame

NextMainImport ==
  \/ MainImportSecret
  \/ MainImportFails
  \/ MainImportAnswers
  \/ MainImportConfigure
  \/ MainImportSleep
  \/ MainImportReturns
  \/ \E c \in ImportConfigs : MainImported(c)
  \/ MainImportThrew
  \/ MainBenchmark
  \/ \E c \in ImportConfigs : MainSecondPhase(c)
  \/ MainSummary
  \/ MainCatch
  \/ MainExit

SpecMainImport == InitMainImport /\ [][NextMainImport]_vars

\* Some runBenchmark call was made, or some run was executed
BenchmarkStarted == bench # "idle" \/ \E r \in DOMAIN execCount : execCount[r] > 0

\* The benchmark of the Telnyx applications is the current one
TelnyxBenchmark == LastPhase /\ bench # "idle"

\* How many requests of this kind the import call made
RequestCount(kind) == Cardinality({i \in DOMAIN prov.requests : prov.requests[i] = kind})

\* C21: provisioning runs once and ahead of scheduling: no run of any
\* benchmark is started before the import call has ended; if it ended by
\* throwing no run is executed at all, and otherwise the identifier it
\* returned is the one the Telnyx applications are loaded with.
C21_ProvisioningBeforeScheduling ==
  /\ RequestCount("secret") <= 1 /\ RequestCount("import") <= 1
  /\ BenchmarkStarted => prov.pc = "done" /\ prov.result = "returned"
  /\ prov.result = "threw" => ~BenchmarkStarted /\ config = NoConfig
  /\ TelnyxBenchmark => main.loaded = prov.assistantId /\ main.loaded = prov.imported.id

\* A run of the second phase of comparison mode is under way with the
\* imported id, after a configuration that failed
C21_Witness ==
  /\ main.mode = "comparison" /\ main.pc = "benchmark2"
  /\ \E r \in DOMAIN runState : runState[r] = "running"
  /\ main.loaded = "t1" /\ prov.requested = "a2"
  /\ prov.configured = "false"

\* The step runScenario is at has an action the switch does not know
AtUnknownStep(t) ==
  /\ run[t].i < Len(run[t].steps)
  /\ CurrentStep(t).action \notin KnownActions

\* C22: a step whose action tag is unknown is a non-fatal no-op: executeStep
\* invokes no handler and no automation call, raises no error, registers no
\* waiter, and the run continues with the next step.
C22_UnknownActionNoOp ==
  [][\A t \in TesterIds :
       /\ At(t, "step") /\ AtUnknownStep(t) =>
            /\ run' = [run EXCEPT ![t].pc = "stepDone", ![t].result = "none"]
            /\ UNCHANGED <<brokerVars, tester, browserEnv, sinkLog>>
       /\ At(t, "stepDone") /\ AtUnknownStep(t) =>
            /\ run' = [run EXCEPT ![t].pc = "step", ![t].i = @ + 1]
            /\ run[t].error = "none" /\ run[t].success
            /\ UNCHANGED <<brokerVars, tester, browserEnv>>]_vars

\* The step after an unknown one is under way and no waiter was registered
C22_Witness ==
  \E t \in TesterIds :
    /\ run[t].pc = "sleeping" /\ run[t].i = 1
    /\ run[t].steps[1] = UnknownStep
    /\ run[t].error = "none"
    /\ waiters = <<>>

\* Runs a worker has claimed
Claimed == {r \in DOMAIN runState : runState[r] # "queued"}

\* Position r of the queue holds repetition rep of the combination of
\* application app and scenario sc
QueuePosition(app, sc, rep) ==
  ((app - 1) * config.numScen + (sc - 1)) * config.repeat + rep + 1

\* C23: the run queue is built up front in deterministic order: combinations
\* in input order (applications outer, scenarios inner), repetitions
\* 0..repeat-1 nested inside each combination, run numbers 1..totalRuns
\* assigned in that order; and workers claim the runs in that queue order.
C23_QueueOrderDeterministic ==
  /\ [](/\ Len(allRuns) = config.numApps * config.numScen * config.repeat
        /\ TotalRuns = Len(allRuns)
        /\ \A app \in 1..config.numApps, sc \in 1..config.numScen,
              rep \in 0..(config.repeat - 1) :
             allRuns[QueuePosition(app, sc, rep)] =
               [app |-> app, scenario |-> sc, repetition |-> rep,
                runNumber |-> QueuePosition(app, sc, rep)]
        /\ Claimed = 1..nextRunIndex)
  /\ [][/\ allRuns' = allRuns
        /\ \A r \in DOMAIN runState :
             r \notin Claimed /\ r \in Claimed' => r = nextRunIndex + 1 /\ nextRunIndex' = r]_vars

\* Three of four runs over two applications and two scenarios are claimed,
\* the last one still queued
C23_Witness ==
  /\ config.numApps = 2 /\ config.numScen = 2
  /\ nextRunIndex = 3
  /\ runState[3] = "running" /\ runState[4] = "queued"
  /\ allRuns[3] = [app |-> 2, scenario |-> 1, repetition |-> 0, runNumber |-> 3]

\* Worker k has been started and its runWorker call is over
WorkerStopped(k) == workers[k].state \in {"returned", "rejected"}

\* C24 (as claimed): the pool is pull-based: a started worker is executing
\* the run it claimed, or it has stopped and then the queue cursor is at the
\* end of the queue; no worker terminates or idles while unclaimed runs remain.
C24_PullBasedPool ==
  \A k \in 1..spawned :
    IF WorkerStopped(k)
    THEN nextRunIndex = Len(allRuns)
    ELSE /\ workers[k].state = "awaiting"
         /\ workers[k].run \in 1..nextRunIndex
         /\ runState[workers[k].run] = "running"

\* C25 (as claimed): no step of a run executes before the session is
\* launched, the instrumentation is injected, the navigation has completed
\* and the network-idle wait has finished; if any of those fails, no step
\* executes at all.
C25_StepsOnlyWhenReady ==
  \A t \in TesterIds :
    InStep(t) \/ run[t].i > 0 =>
      /\ browserEnv[t].acquired
      /\ browserEnv[t].injected
      /\ browserEnv[t].loaded = "idle"

\* The run of tester t has begun a listen step, its only step that waits
ListenRun(t) ==
  /\ run[t].pc \notin {"idle", "beginRun"}
  /\ \A i \in 1..Len(run[t].steps) : run[t].steps[i].action \in {"click", "listen"}
  /\ \E i \in 1..Len(run[t].steps) : run[t].steps[i].action = "listen"

\* The waits registered so far by tester t, in registration order
RECURSIVE WaitsOf(_, _)
WaitsOf(t, w) ==
  IF w > Len(waiters) THEN <<>>
  ELSE IF waiters[w].tester = t THEN <<waiters[w]>> \o WaitsOf(t, w + 1)
  ELSE WaitsOf(t, w + 1)

\* C26: listen performs its waits in the fixed order recording-start,
\* audio-start, audio-stop, recording-complete, each registered only after
\* the previous one resolved; the recorder is started before the first wait
\* and stopped only after audio-stop was received; a score is returned only
\* after recording-complete was received; a timeout of any wait fails the step.
C26_ListenWaitsInOrder ==
  \A t \in TesterIds :
    ListenRun(t) =>
      LET waits == WaitsOf(t, 1)
          order == <<"recordingstart", "audiostart", "audiostop", "recordingcomplete">>
      IN /\ Len(waits) <= 4
         /\ \A k \in 1..Len(waits) :
              /\ waits[k].eventType = order[k]
              /\ k < Len(waits) => waits[k].promise = "resolved"
         /\ Len(waits) >= 1 /\ ~browserEnv[t].recorder =>
              Len(waits) = 4 /\ waits[3].promise = "resolved"
         /\ browserEnv[t].recorder => Len(waits) \in 1..3
         /\ run[t].result \in {"score", "success"} =>
              Len(waits) = 4 /\ waits[4].promise = "resolved"
         /\ (\E k \in 1..Len(waits) : waits[k].promise = "timeout") =>
              /\ run[t].pc \in AbortPcs \cup {"awaitEvent"}
              /\ run[t].result \notin {"score", "success"}
              /\ run[t].pc = "done" => run[t].error = "Timeout"

\* The listen step returned its score after its four waits resolved
C26_Witness ==
  \E t \in TesterIds :
    /\ ListenRun(t)
    /\ run[t].pc = "stepDone" /\ run[t].result = "score"
    /\ Len(WaitsOf(t, 1)) = 4
    /\ \A w \in WaiterIds : waiters[w].promise = "resolved"

\* The recordStepMetric calls the sink of tester t has received
MetricCalls(t) == {k \in 1..Len(sinkLog[t]) : sinkLog[t][k].call = "recordStepMetric"}

\* C27: step metrics reach the sink only when the step requests them and its
\* handler succeeded: a step without a metrics attribute, or whose handler
\* failed, produces no recordStepMetric call; a named metric is forwarded
\* only if the handler returned it and the step lists it; each forwarded
\* metric carries the step's index in the combined step list.
C27_MetricsOnlyOnRequestAndSuccess ==
  \A t \in TesterIds :
    /\ \A k \in MetricCalls(t) :
         LET entry == sinkLog[t][k]
             step == run[t].steps[entry.stepIndex + 1]
         IN /\ entry.stepIndex \in 0..(run[t].i - 1)
            /\ entry.names # {} /\ entry.names \subseteq step.metrics
            /\ "score" \in entry.names => step.action = "listen"
            /\ \A j \in MetricCalls(t) : j < k => sinkLog[t][j].stepIndex < entry.stepIndex
    /\ \A i \in 1..Len(run[t].steps) :
         /\ run[t].steps[i].metrics = {} =>
              \A k \in MetricCalls(t) : sinkLog[t][k].stepIndex # i - 1
         /\ i <= run[t].i /\ run[t].steps[i].metrics \cap {"elapsed_time"} # {} =>
              \E k \in MetricCalls(t) : sinkLog[t][k].stepIndex = i - 1

\* After the application's click, which requests nothing, the listen step
\* at index 1 forwarded the score its handler returned
C27_Witness ==
  \E t \in TesterIds :
    /\ run[t].steps = <<ClickStep, ListenStep>>
    /\ run[t].i = 2
    /\ \E k \in MetricCalls(t) :
         sinkLog[t][k].stepIndex = 1 /\ sinkLog[t][k].names = {"score"}
    /\ Cardinality(MetricCalls(t)) = 1

\* C28 (as claimed): in diagnostic mode the periodic sampler armed by a wait
\* is active only while that wait is outstanding: it is disarmed when the
\* waiter is resolved by an event, when it times out, and when it is
\* cancelled by clearAudioEventQueue or close; outside diagnostic mode no
\* sampler is armed.
C28_SamplerOnlyWhileOutstanding ==
  \A w \in WaiterIds :
    /\ waiters[w].interval => debug[waiters[w].tester]
    /\ waiters[w].interval => waiters[w].promise = "pending" /\ waiters[w].timer = "armed"
    /\ debug[waiters[w].tester] /\ waiters[w].promise = "pending" /\ waiters[w].timer = "armed"
         => waiters[w].interval

\* The import answered with a resource that echoes the requested identifier
ValidatedImport == prov.imported # NoAssistant /\ prov.imported.import_id = prov.requested

\* C29 as stated: after a validated import, configuration is attempted if and
\* only if the imported-at timestamp of the resource is under 60 seconds old;
\* otherwise the resource receives no update request.
C29_ConfigureIffUnderThreshold ==
  ValidatedImport /\ prov.pc = "done" =>
    (ConfigureRequested <=> prov.imported.importedAt /\ prov.imported.age < 60000)

\* C29: after a validated import, configuration is attempted unless the
\* resource is reused, i.e. carries an imported-at timestamp more than 60
\* seconds old: a resource with no imported-at timestamp, or one at most 60
\* seconds old, is configured, and a reused one receives no update request.
C29_ConfigureUnlessOlderThanThreshold ==
  /\ ConfigureRequested =>
       ValidatedImport /\ (~prov.imported.importedAt \/ prov.imported.age <= 60000)
  /\ ValidatedImport /\ prov.pc = "done" =>
       (ConfigureRequested <=> ~prov.imported.importedAt \/ prov.imported.age <= 60000)

\* A resource without an imported-at timestamp was configured and returned
C29_Witness ==
  /\ ValidatedImport /\ prov.pc = "done" /\ prov.result = "returned"
  /\ ~prov.imported.importedAt
  /\ ConfigureRequested /\ prov.configured = "true"

\* No waiter of tester t is outstanding and its registry holds no entry
NothingPending(t) ==
  /\ RegistryEmpty(t)
  /\ \A w \in WaiterIds : waiters[w].tester = t => ~Outstanding(w)

\* C30: on teardown every outstanding waiter of the run is force-failed
\* before its automation session is released: in close() all pending waiters
\* are rejected and the registry emptied strictly before the browser is closed.
C30_WaitersFailedBeforeRelease ==
  /\ [](\A t \in TesterIds :
          tester[t].browser # "open" \/ browserEnv[t].proc = "exited" => NothingPending(t))
  /\ [][\A t \in TesterIds :
          browserEnv[t].proc = "running" /\ browserEnv'[t].proc = "exited" =>
            NothingPending(t) /\ tester[t].browser = "closing"]_vars

\* The browser was closed after two waiters of different event types, still
\* outstanding when close() was called, had been rejected
C30_Witness ==
  \E t \in TesterIds :
    /\ browserEnv[t].proc = "exited" /\ tester[t].browser = "null"
    /\ \E u, v \in WaiterIds :
         /\ waiters[u].tester = t /\ waiters[v].tester = t
         /\ waiters[u].eventType # waiters[v].eventType
         /\ waiters[u].promise = "closed" /\ waiters[v].promise = "closed"

\* ------------------------------------------------------------------------
\* A timeout and the other waits of the same broker
\* ------------------------------------------------------------------------
\* The entries of one pending list that belong to other waits than w
EntriesOfOthers(q, w) == SelectSeq(q, LAMBDA entry : entry.reject # w)

\* C31: when the timeout handler of one wait runs (either half of it), every
\* other outstanding wait of the same broker, of the same or of another
\* event type, keeps its deadline, its pending state and its armed timer,
\* and the entries of the other waits stay in their lists in the same order.
C31_TimeoutCancelsOnlyThatWait ==
  [][\A w \in WaiterIds :
       TimeoutHandler(w) \/ TimeoutReject(w) =>
         /\ \A v \in WaiterIds \ {w} : Outstanding(v) => waiters'[v] = waiters[v]
         /\ \A t \in TesterIds, e \in EventTypes :
              EntriesOfOthers(pendingPromises'[t][e], w) =
                EntriesOfOthers(pendingPromises[t][e], w)]_vars

\* C31 witness: a wait has failed with Timeout while a later wait of the same
\* tester and event type is still outstanding, registered and armed.
C31_Witness ==
  \E u, v \in WaiterIds :
    /\ u < v
    /\ waiters[u].tester = waiters[v].tester
    /\ waiters[u].eventType = waiters[v].eventType
    /\ waiters[u].promise = "timeout"
    /\ Outstanding(v) /\ HasEntry(v) /\ waiters[v].timer = "armed"

\* ------------------------------------------------------------------------
\* The waits of one run
\* ------------------------------------------------------------------------
OutstandingOf(t) == {w \in WaiterIds : waiters[w].tester = t /\ Outstanding(w)}

\* C32: during a run driven by runScenario the broker of its tester never has
\* more than one outstanding waiter in total, hence never more than one per
\* event type, and no pending list ever holds more than one entry.
C32_OneOutstandingWaiterPerRun ==
  \A t \in TesterIds :
    /\ Cardinality(OutstandingOf(t)) <= 1
    /\ \A e \in EventTypes :
         /\ Cardinality({w \in OutstandingOf(t) : waiters[w].eventType = e}) <= 1
         /\ Len(pendingPromises[t][e]) <= 1

\* C32 witness: the run is suspended on the wait of its second step while
\* the wait of its first step has been resolved.
C32_Witness ==
  \E t \in TesterIds :
    /\ run[t].pc = "awaitEvent"
    /\ run[t].i = 1
    /\ run[t].await = 2
    /\ Outstanding(2)
    /\ waiters[1].tester = t /\ waiters[1].promise = "resolved"

\* ------------------------------------------------------------------------
\* The calls a run makes to the report generator
\* ------------------------------------------------------------------------
\* Positions of runScenario before its beginRun call and after its endRun call
BeforeBeginPcs == {"idle", "beginRun"}
AfterEndPcs == {"close", "stopRecording", "rejectPending", "browserClose", "settle", "done"}

CallsNamed(t, name) == {k \in 1..Len(sinkLog[t]) : sinkLog[t][k].call = name}

\* C33: the calls of a run to the report generator are beginRun, then zero or
\* more recordStepMetric, then endRun: nothing is recorded before beginRun or
\* after endRun, beginRun is the first call of every run that was started,
\* and endRun has been called exactly once when the run goes on to close the
\* session, on every exit path (a failed launch or navigation included).
C33_SinkCallsBracketed ==
  \A t \in TesterIds :
    /\ run[t].pc \in BeforeBeginPcs <=> sinkLog[t] = <<>>
    /\ sinkLog[t] # <<>> => CallsNamed(t, "beginRun") = {1}
    /\ \A k \in 1..Len(sinkLog[t]) :
         sinkLog[t][k].call \in {"beginRun", "recordStepMetric", "endRun"}
    /\ CallsNamed(t, "endRun") =
         IF run[t].pc \in AfterEndPcs THEN {Len(sinkLog[t])} ELSE {}

\* C33 witness: a run whose launch failed has finished with beginRun and
\* endRun(success = false) as its only two calls.
C33_Witness ==
  \E t \in TesterIds :
    /\ run[t].pc = "done"
    /\ run[t].error = "LaunchError"
    /\ sinkLog[t] = <<[call |-> "beginRun"], [call |-> "endRun", success |-> FALSE]>>

\* C34 (as claimed): the success flag a run passes to endRun agrees with the
\* outcome executeRun reports to its worker for that run: endRun(true)
\* exactly when the run's result is Succeeded, also when closing the
\* session fails.
C34_EndRunAgreesWithOutcome ==
  \A t \in TesterIds :
    run[t].pc = "done" =>
      \A k \in CallsNamed(t, "endRun") :
        sinkLog[t][k].success <=> runState[t] = "succeeded"

\* ------------------------------------------------------------------------
\* The aggregate of a benchmark
\* ------------------------------------------------------------------------
\* The entries of the errors list that name run r
ErrorsNaming(r) ==
  {i \in 1..Len(aggregate.errors) :
     /\ aggregate.errors[i].app = allRuns[r].app
     /\ aggregate.errors[i].scenario = allRuns[r].scenario
     /\ aggregate.errors[i].repetition = allRuns[r].repetition}

\* C35: when runBenchmark has returned, successful + failed = totalRuns =
\* combinations x repeat, successful and failed count the runs with that
\* outcome, and the errors list has exactly one entry per failed run, naming
\* its app, scenario and repetition, and no entry for a successful run.
C35_AggregateConsistent ==
  bench = "returned" =>
    /\ aggregate.successful + aggregate.failed = aggregate.totalRuns
    /\ aggregate.totalRuns = config.numApps * config.numScen * config.repeat
    /\ aggregate.totalRuns = Len(allRuns)
    /\ aggregate.successful = Cardinality({r \in DOMAIN runState : runState[r] = "succeeded"})
    /\ aggregate.failed = Cardinality({r \in DOMAIN runState : runState[r] = "failed"})
    /\ Len(aggregate.errors) = aggregate.failed
    /\ \A r \in DOMAIN runState :
         Cardinality(ErrorsNaming(r)) = IF runState[r] = "failed" THEN 1 ELSE 0

\* C35 witness: runBenchmark has returned an aggregate with a successful
\* run and two failed ones.
C35_Witness ==
  /\ bench = "returned"
  /\ aggregate.successful >= 1
  /\ aggregate.failed = 2
  /\ Len(aggregate.errors) = 2

\* ------------------------------------------------------------------------
\* The retry loop of configureImportedAssistant
\* ------------------------------------------------------------------------
RECURSIVE SleptMs(_)
SleptMs(log) == IF log = <<>> THEN 0 ELSE Head(log).delay + SleptMs(Tail(log))

ConfigureOver == prov.pc \in {"return", "done"} /\ prov.log # <<>>

\* C36: configureImportedAssistant issues at most 5 update requests, issues
\* none after a successful one (and then returns true), does not sleep after
\* its fifth attempt, sleeps at most 500 + 1000 + 2000 + 4000 ms in total,
\* ends with true or false and never with an exception, and, every request
\* being answered or failing, always ends.
C36_ConfigureBoundedAndTotal ==
  /\ [](/\ Len(prov.log) <= MAX_RETRIES
        /\ prov.attempt <= MAX_RETRIES
        /\ \A k \in 1..Len(prov.log) :
             /\ prov.log[k].attempt = k
             /\ ~Failed(prov.log[k].outcome) =>
                  k = Len(prov.log) /\ prov.configured = "true" /\ prov.log[k].delay = 0
             /\ k = MAX_RETRIES => prov.log[k].delay = 0
        /\ SleptMs(prov.log) <= 500 + 1000 + 2000 + 4000
        /\ ConfigureOver =>
             /\ prov.configured \in {"true", "false"}
             /\ prov.result # "threw"
             /\ prov.configured = "true" <=> ~Failed(prov.log[Len(prov.log)].outcome))
  /\ (prov.pc = "configure") ~> ConfigureOver

\* C36 witness: the call has ended with false after five failed requests
\* and 7500 ms of sleep.
C36_Witness ==
  /\ ConfigureOver
  /\ Len(prov.log) = MAX_RETRIES
  /\ prov.configured = "false"
  /\ SleptMs(prov.log) = 7500

\* ------------------------------------------------------------------------
\* An event published after the deadline
\* ------------------------------------------------------------------------
\* C37 (as claimed): a wait whose timeout handler has run is never resolved
\* successfully afterwards, whether or not diagnostics are collected before
\* the failure is produced.
C37_NoResolveAfterDeadline ==
  \A w \in WaiterIds :
    waiters[w].timer \in {"collecting", "fired"} => waiters[w].promise # "resolved"

\* ------------------------------------------------------------------------
\* The in-page recorder of a listen step
\* ------------------------------------------------------------------------
\* C38 (as claimed): when a step completes or fails, the in-page recorder is
\* not running: a listen step that started it has also stopped it, on its
\* failure paths as on its normal one.
C38_RecorderStoppedOnExit ==
  \A t \in TesterIds :
    run[t].pc \in {"stepDone", "catch"} => ~browserEnv[t].recorder

====
